---- MODULE Spec2Model ----
(***************************************************************************)
(* A model of the CSI data-mover plugin actions of velero-plugin-for-csi:  *)
(* the cluster resource store (as the actions see it through their typed   *)
(* clients) and the Execute entry point of every item action.              *)
(*                                                                         *)
(* Names are strings, built with the same prefixes and suffixes as the     *)
(* code.  A Go map is a record [isNil, kv] where kv is a function from the *)
(* keys present to their values.  An API call ends "nil", "NotFound",      *)
(* "AlreadyExists" or "Error" (any other API error).  An Execute ends      *)
(* "nil" (no error), "error" (an error value is returned), "timeout" (the  *)
(* error of a wait that ran out) or "panic" (a nil dereference or a        *)
(* MustParse of a malformed quantity).  Each action has its own            *)
(* specification: the store it starts from and the mover's steps it waits  *)
(* for.                                                                    *)
(***************************************************************************)
EXTENDS Integers, Sequences, FiniteSets, TLC

VARIABLES
    mbrs,       \* MoverBackupRequest objects in the store (DataMoverBackup / VolumeSnapshotBackup)
    mrrs,       \* MoverRestoreRequest objects in the store (DataMoverRestore / VolumeSnapshotRestore)
    rts,        \* ReplicationDestination objects in the store
    snaps,      \* VolumeSnapshot objects in the store
    contents,   \* VolumeSnapshotContent objects in the store
    inv,        \* the last Execute invocation: its inputs, the store before it, its calls and its result
    run         \* the invocation that is in a wait (Restore Orchestrator, Mover-Status Propagator):
                \* its position in Execute and in the wait

vars == <<mbrs, mrrs, rts, snaps, contents, inv, run>>

NotRunning == [pc |-> "idle"]

(***************************************************************************)
(* Go values                                                               *)
(***************************************************************************)
NilMap == [isNil |-> TRUE, kv |-> <<>>]

MakeMap(f) == [isNil |-> FALSE, kv |-> f]

\* m[k] of a Go map: the zero value "" when the key is absent or the map nil
MapGet(m, k) == IF k \in DOMAIN m.kv THEN m.kv[k] ELSE ""

\* _, ok := m[k]
MapHas(m, k) == k \in DOMAIN m.kv

NoItem == [kind |-> "none"]

NoInvocation ==
    [op |-> "none", item |-> NoItem, arg |-> NoItem, pre |-> {}, calls |-> <<>>,
     res |-> "none", out |-> NoItem, additional |-> <<>>]

(***************************************************************************)
(* The store, keyed by (namespace, name)                                   *)
(***************************************************************************)
Found(store, ns, name) == \E o \in store : o.namespace = ns /\ o.name = name

Obj(store, ns, name) == CHOOSE o \in store : o.namespace = ns /\ o.name = name

\* client.Get
ClientGet(store, ns, name) == IF Found(store, ns, name) THEN "nil" ELSE "NotFound"

\* client.Create: the store holds one object per (namespace, name)
ClientCreate(store, o) == IF Found(store, o.namespace, o.name) THEN "AlreadyExists" ELSE "nil"

Call(verb, kind, ns, name, res) ==
    [verb |-> verb, kind |-> kind, namespace |-> ns, name |-> name, res |-> res]

(***************************************************************************)
(* Backup Orchestrator: VolumeSnapshotContentBackupItemAction              *)
(***************************************************************************)
PrefixedSnapshotterSecretNameKey == "snapshot.storage.kubernetes.io/deletion-secret-name"
PrefixedSnapshotterSecretNamespaceKey == "snapshot.storage.kubernetes.io/deletion-secret-namespace"

IsVolumeSnapshotContentHasDeleteSecret(vsc) ==
    /\ MapHas(vsc.annotations, PrefixedSnapshotterSecretNameKey)
    /\ MapHas(vsc.annotations, PrefixedSnapshotterSecretNamespaceKey)

\* the status of a MoverBackupRequest the mover has not reconciled, or of an item whose
\* status the archive has stripped
NoStatus == [phase |-> "", resticRepository |-> "", pvcName |-> "", pvcSize |-> ""]

\* The existence check.  A failed Get, not-found included, is returned as the error.
DoesDataMoverBackupExistForVSC(volSnap, store) ==
    LET name == "dmb-" \o volSnap.refName
        err  == ClientGet(store, volSnap.namespace, name)
    IN  IF err # "nil"
        THEN [exists |-> FALSE, err |-> err,
              calls |-> <<Call("get", "mbr", volSnap.namespace, name, err)>>]
        ELSE LET dmb == Obj(store, volSnap.namespace, name)
             IN  [exists |-> Len(dmb.content) > 0 /\ dmb.content = volSnap.name,
                  err |-> "nil",
                  calls |-> <<Call("get", "mbr", volSnap.namespace, name, "nil")>>]

\* A plausible slip: the request is named after the backup, not after the owning Snapshot
CraftVSBPerBackup(snapCont, backup) ==
    [kind |-> "mbr",
     name |-> "vsb-" \o backup.name,
     namespace |-> snapCont.refNamespace,
     content |-> snapCont.name,
     protectedNamespace |-> backup.namespace,
     annotations |-> NilMap,
     status |-> NoStatus]

\* craft a VolumeSnapshotBackup object to be created
CraftVSB(snapCont, backup) ==
    [kind |-> "mbr",
     name |-> "vsb-" \o snapCont.refName,
     namespace |-> snapCont.refNamespace,
     content |-> snapCont.name,
     protectedNamespace |-> backup.namespace,
     annotations |-> NilMap,
     status |-> NoStatus]

SecretItems(snapCont) ==
    IF IsVolumeSnapshotContentHasDeleteSecret(snapCont)
    THEN <<[group |-> "", resource |-> "secrets",
            name |-> MapGet(snapCont.annotations, PrefixedSnapshotterSecretNameKey),
            namespace |-> MapGet(snapCont.annotations, PrefixedSnapshotterSecretNamespaceKey)]>>
    ELSE <<>>

\* A plausible slip: the returned item is stamped with the name of its request
BackupExecuteStamped(snapCont, backup, store) ==
    LET vsb   == CraftVSB(snapCont, backup)
        check == DoesDataMoverBackupExistForVSC(snapCont, store)
        cerr  == ClientCreate(store, vsb)
        ccall == <<Call("create", "mbr", vsb.namespace, vsb.name, cerr)>>
        items == SecretItems(snapCont)
                   \o <<[group |-> "datamover.oadp.openshift.io",
                         resource |-> "volumesnapshotbackup", name |-> vsb.name,
                         namespace |-> vsb.namespace]>>
    IN  IF check.err # "nil"
        THEN [res |-> "error", out |-> NoItem, additional |-> <<>>,
              calls |-> check.calls, store |-> store]
        ELSE IF check.exists
        THEN [res |-> "nil", out |-> [snapCont EXCEPT !.annotations = MakeMap([k \in {"datamover.io/request"} |-> vsb.name])], additional |-> items,
              calls |-> check.calls, store |-> store]
        ELSE IF cerr # "nil"
        THEN [res |-> "error", out |-> NoItem, additional |-> <<>>,
              calls |-> check.calls \o ccall, store |-> store]
        ELSE [res |-> "nil", out |-> [snapCont EXCEPT !.annotations = MakeMap([k \in {"datamover.io/request"} |-> vsb.name])], additional |-> items,
              calls |-> check.calls \o ccall, store |-> store \cup {vsb}]

\* Execute of the snapshot-content backup action, on the store `store`
BackupExecute(snapCont, backup, store) ==
    LET vsb   == CraftVSB(snapCont, backup)
        check == DoesDataMoverBackupExistForVSC(snapCont, store)
        cerr  == ClientCreate(store, vsb)
        ccall == <<Call("create", "mbr", vsb.namespace, vsb.name, cerr)>>
        items == SecretItems(snapCont)
                   \o <<[group |-> "datamover.oadp.openshift.io",
                         resource |-> "volumesnapshotbackup", name |-> vsb.name,
                         namespace |-> vsb.namespace]>>
    IN  IF check.err # "nil"
        THEN [res |-> "error", out |-> NoItem, additional |-> <<>>,
              calls |-> check.calls, store |-> store]
        ELSE IF check.exists
        THEN [res |-> "nil", out |-> snapCont, additional |-> items,
              calls |-> check.calls, store |-> store]
        ELSE IF cerr # "nil"
        THEN [res |-> "error", out |-> NoItem, additional |-> <<>>,
              calls |-> check.calls \o ccall, store |-> store]
        ELSE [res |-> "nil", out |-> snapCont, additional |-> items,
              calls |-> check.calls \o ccall, store |-> store \cup {vsb}]

(***************************************************************************)
(* Inputs of the Backup Orchestrator                                       *)
(***************************************************************************)
ContentNames == {"sc-a", "sc-b"}

\* the Snapshot a content belongs to: spec.volumeSnapshotRef, fixed for the object's lifetime
OwningSnapshot(c) == IF c = "sc-a" THEN "snap-a" ELSE "snap-b"

SecretAnnotationSets ==
    { MakeMap(<<>>),
      MakeMap([k \in {PrefixedSnapshotterSecretNameKey} |-> "s1"]),
      MakeMap([k \in {PrefixedSnapshotterSecretNameKey, PrefixedSnapshotterSecretNamespaceKey}
                 |-> IF k = PrefixedSnapshotterSecretNameKey THEN "s1" ELSE "ns1"]) }

\* the item payload; metadata.namespace is empty for a cluster-scoped content
SnapContItems ==
    { [kind |-> "vsc", name |-> c, namespace |-> ns, refName |-> OwningSnapshot(c),
       refNamespace |-> "ns1", annotations |-> a]
        : c \in ContentNames, ns \in {"", "ns1"}, a \in SecretAnnotationSets }

Backups == { [name |-> "b1", namespace |-> "velero"], [name |-> "b2", namespace |-> "openshift-adp"] }

\* a request left in the store under the older dmb- name
LegacyDMB(snap, c) ==
    [kind |-> "mbr", name |-> "dmb-" \o snap, namespace |-> "ns1", content |-> c,
     protectedNamespace |-> "velero", annotations |-> NilMap, status |-> NoStatus]

InitMbrs ==
    {{}} \cup { {LegacyDMB(s, c)} : s \in {"snap-a", "snap-b"}, c \in ContentNames \cup {""} }

DoBackup ==
    \E snapCont \in SnapContItems, backup \in Backups :
        LET r == BackupExecute(snapCont, backup, mbrs)
        IN  /\ mbrs' = r.store
            /\ inv' = [op |-> "backup", item |-> snapCont, arg |-> backup, pre |-> mbrs,
                       calls |-> r.calls, res |-> r.res, out |-> r.out,
                       additional |-> r.additional]
            /\ UNCHANGED <<mrrs, rts, snaps, contents, run>>

InitBackup ==
    /\ mbrs \in InitMbrs
    /\ mrrs = {} /\ rts = {} /\ snaps = {} /\ contents = {}
    /\ run = NotRunning
    /\ inv = NoInvocation

NextBackup == DoBackup

SpecBackup == InitBackup /\ [][NextBackup]_vars

(***************************************************************************)
(* Two Backup Orchestrator invocations on one content, in parallel: each   *)
(* call to the API server is a step of its own                             *)
(***************************************************************************)
Invocations == {1, 2}

\* an invocation at the start of Execute
AtCheck(snapCont, backup) ==
    [pc |-> "check", item |-> snapCont, backup |-> backup, calls |-> <<>>, res |-> "none"]

Returned(p, res, calls) == [p EXCEPT !.pc = "done", !.res = res, !.calls = calls]

\* two backups reach the same content at once
ParallelBackupsStart ==
    /\ run.pc = "idle"
    /\ \E snapCont \in SnapContItems :
          run' = [pc |-> "parallel", pre |-> mbrs,
                  proc |-> [i \in Invocations
                              |-> AtCheck(snapCont, [name |-> IF i = 1 THEN "b1" ELSE "b2",
                                                     namespace |-> "velero"])]]
    /\ UNCHANGED <<mbrs, mrrs, rts, snaps, contents, inv>>

\* the existence check of one invocation
BackupCheck(i) ==
    /\ run.pc = "parallel"
    /\ run.proc[i].pc = "check"
    /\ LET p     == run.proc[i]
           check == DoesDataMoverBackupExistForVSC(p.item, mbrs)
       IN  run' = [run EXCEPT !.proc[i] =
                      IF check.err # "nil" THEN Returned(p, "error", check.calls)
                      ELSE IF check.exists THEN Returned(p, "nil", check.calls)
                      ELSE [p EXCEPT !.pc = "create", !.calls = check.calls]]
    /\ UNCHANGED <<mbrs, mrrs, rts, snaps, contents, inv>>

\* the create call of one invocation, and its return
BackupCreate(i) ==
    /\ run.pc = "parallel"
    /\ run.proc[i].pc = "create"
    /\ LET p     == run.proc[i]
           vsb   == CraftVSB(p.item, p.backup)
           cerr  == ClientCreate(mbrs, vsb)
           calls == p.calls \o <<Call("create", "mbr", vsb.namespace, vsb.name, cerr)>>
       IN  /\ mbrs' = IF cerr = "nil" THEN mbrs \cup {vsb} ELSE mbrs
           /\ run' = [run EXCEPT !.proc[i] =
                         Returned(p, IF cerr = "nil" THEN "nil" ELSE "error", calls)]
    /\ UNCHANGED <<mrrs, rts, snaps, contents, inv>>

ParallelBackupStep == \E i \in Invocations : BackupCheck(i) \/ BackupCreate(i)

NextParallelBackups == ParallelBackupsStart \/ ParallelBackupStep

SpecParallelBackups == InitBackup /\ [][NextParallelBackups]_vars

(***************************************************************************)
(* Deletion Guard: VolumeSnapshotContentDeleteItemAction                   *)
(***************************************************************************)
BackupNameLabel == "velero.io/backup-name"

DNS1035LabelMaxLength == 63

IsSpace(c) == c \in {" ", "\t", "\n"}

RECURSIVE TrimLeft(_)
TrimLeft(s) ==
    IF Len(s) = 0 THEN s
    ELSE IF IsSpace(SubSeq(s, 1, 1)) THEN TrimLeft(SubSeq(s, 2, Len(s))) ELSE s

RECURSIVE TrimRight(_)
TrimRight(s) ==
    IF Len(s) = 0 THEN s
    ELSE IF IsSpace(SubSeq(s, Len(s), Len(s))) THEN TrimRight(SubSeq(s, 1, Len(s) - 1)) ELSE s

\* strings.TrimSpace
TrimSpace(s) == TrimRight(TrimLeft(s))

\* the first six hex digits of the SHA-256 of a label, as an uninterpreted digest
Sha256Hex6(label) == "h" \o SubSeq(label, Len(label) - 4, Len(label))

\* label.GetValidName: a name longer than a label may be is cut and ends in a digest
GetValidName(label) ==
    IF Len(label) <= DNS1035LabelMaxLength
    THEN label
    ELSE SubSeq(label, 1, DNS1035LabelMaxLength - 6) \o Sha256Hex6(label)

\* A plausible slip: the guard for absent labels and blank backup names is left out
HasBackupLabelNoGuard(o, backupName) ==
    MapGet(o.labels, BackupNameLabel) = GetValidName(backupName)

HasBackupLabel(o, backupName) ==
    IF o.labels.isNil \/ Len(TrimSpace(backupName)) = 0
    THEN FALSE
    ELSE MapGet(o.labels, BackupNameLabel) = GetValidName(backupName)

\* contents are cluster-scoped: their namespace is empty
WithPolicy(store, vscName, policy) ==
    { IF o.name = vscName THEN [o EXCEPT !.deletionPolicy = policy] ELSE o : o \in store }

\* the merge patch {"spec":{"deletionPolicy":"Delete"}}; `fault` is an API error the call meets
SetVolumeSnapshotContentDeletionPolicy(vscName, store, fault) ==
    IF fault # "nil" THEN [err |-> fault, store |-> store]
    ELSE IF ~Found(store, "", vscName) THEN [err |-> "NotFound", store |-> store]
    ELSE [err |-> "nil", store |-> WithPolicy(store, vscName, "Delete")]

\* A plausible slip: a not-found patch is logged and the deletion carries on
AfterPatchCarryOn(err, snapCont) ==
    IF err = "nil" \/ err = "NotFound" THEN "continue" ELSE "error"

\* what Execute does with the patch's error: the warning for a not-found patch
\* dereferences snapCont.Status.SnapshotHandle
AfterPatch(err, snapCont) ==
    IF err = "nil" THEN "continue"
    ELSE IF err = "NotFound"
         THEN IF snapCont.status.isNil \/ snapCont.status.handleIsNil THEN "panic" ELSE "nil"
         ELSE "error"

\* VolumeSnapshotContents().Delete; a "NotFound" fault is an object removed out of band
DeleteContent(vscName, store, fault) ==
    IF fault = "Error" THEN [err |-> "Error", store |-> store]
    ELSE IF fault = "NotFound" \/ ~Found(store, "", vscName)
         THEN [err |-> "NotFound", store |-> { o \in store : o.name # vscName }]
         ELSE [err |-> "nil", store |-> { o \in store : o.name # vscName }]

\* A plausible slip: the error of the delete call is returned whatever it is
DeleteExecuteStrict(snapCont, backupName, store, faults) ==
    IF ~HasBackupLabel(snapCont, backupName)
    THEN [res |-> "nil", calls |-> <<>>, store |-> store]
    ELSE LET p     == SetVolumeSnapshotContentDeletionPolicy(snapCont.name, store, faults.patch)
             pcall == <<Call("patch", "vsc", "", snapCont.name, p.err)>>
             next  == AfterPatch(p.err, snapCont)
             d     == DeleteContent(snapCont.name, p.store, faults.delete)
             dcall == <<Call("delete", "vsc", "", snapCont.name, d.err)>>
         IN  IF next # "continue"
             THEN [res |-> next, calls |-> pcall, store |-> p.store]
             ELSE [res |-> IF d.err # "nil" THEN "error" ELSE "nil",
                   calls |-> pcall \o dcall, store |-> d.store]

\* Execute of the snapshot-content delete action
DeleteExecute(snapCont, backupName, store, faults) ==
    IF ~HasBackupLabel(snapCont, backupName)
    THEN [res |-> "nil", calls |-> <<>>, store |-> store]
    ELSE LET p     == SetVolumeSnapshotContentDeletionPolicy(snapCont.name, store, faults.patch)
             pcall == <<Call("patch", "vsc", "", snapCont.name, p.err)>>
             next  == AfterPatch(p.err, snapCont)
             d     == DeleteContent(snapCont.name, p.store, faults.delete)
             dcall == <<Call("delete", "vsc", "", snapCont.name, d.err)>>
         IN  IF next # "continue"
             THEN [res |-> next, calls |-> pcall, store |-> p.store]
             ELSE [res |-> IF d.err # "nil" /\ d.err # "NotFound" THEN "error" ELSE "nil",
                   calls |-> pcall \o dcall, store |-> d.store]

(***************************************************************************)
(* Inputs of the Deletion Guard                                            *)
(***************************************************************************)
\* a backup name of 64 characters, one more than a label value may have
LongBackupName == "backup-0123456789-0123456789-0123456789-0123456789-0123456789-xy"

DeleteBackupNames == {"b1", "", " ", " b1", LongBackupName}

LabelSets ==
    {NilMap, MakeMap(<<>>)}
        \cup { MakeMap([k \in {BackupNameLabel} |-> v])
                 : v \in {"b1", "", " ", "b2", GetValidName(LongBackupName)} }

\* the status of the item: absent, without a snapshot handle, or with one
StatusSets ==
    { [isNil |-> TRUE, handleIsNil |-> TRUE, snapshotHandle |-> ""],
      [isNil |-> FALSE, handleIsNil |-> TRUE, snapshotHandle |-> ""],
      [isNil |-> FALSE, handleIsNil |-> FALSE, snapshotHandle |-> "handle-1"] }

DeleteItems ==
    { [kind |-> "vsc", name |-> c, namespace |-> "", labels |-> l, status |-> st]
        : c \in {"sc-a"}, l \in LabelSets, st \in StatusSets }

\* the API errors an invocation meets: none, a failing patch, or a failing delete
DeleteFaults ==
    { [patch |-> "nil", delete |-> "nil"], [patch |-> "Error", delete |-> "nil"],
      [patch |-> "nil", delete |-> "NotFound"], [patch |-> "nil", delete |-> "Error"] }

\* a content in the store, dynamically provisioned: its source is a volume handle
Content(name, policy, handle) ==
    [kind |-> "vsc", name |-> name, namespace |-> "", deletionPolicy |-> policy,
     driver |-> "csi-driver", refNamespace |-> "ns1", refName |-> OwningSnapshot(name),
     snapshotHandleIsNil |-> TRUE, snapshotHandle |-> "",
     volumeHandleIsNil |-> FALSE, volumeHandle |-> "vol-" \o name, restoreName |-> "",
     status |-> [isNil |-> FALSE, handleIsNil |-> FALSE, snapshotHandle |-> handle]]

InitContents == { { Content(c, "Retain", "handle-1") : c \in S } : S \in SUBSET ContentNames }

DoDelete ==
    \E snapCont \in DeleteItems, backupName \in DeleteBackupNames, faults \in DeleteFaults :
        LET r == DeleteExecute(snapCont, backupName, contents, faults)
        IN  /\ contents' = r.store
            /\ inv' = [op |-> "delete", item |-> snapCont, arg |-> [name |-> backupName],
                       pre |-> contents, calls |-> r.calls, res |-> r.res, out |-> NoItem,
                       additional |-> <<>>]
            /\ UNCHANGED <<mbrs, mrrs, rts, snaps, run>>

InitDelete ==
    /\ mbrs = {} /\ mrrs = {} /\ rts = {} /\ snaps = {}
    /\ contents \in InitContents
    /\ run = NotRunning
    /\ inv = NoInvocation

NextDelete == DoDelete

SpecDelete == InitDelete /\ [][NextDelete]_vars

(***************************************************************************)
(* Two Deletion Guard invocations on one content, in parallel: the patch   *)
(* and the delete of each are steps of their own; the API server fails     *)
(* only with not-found                                                     *)
(***************************************************************************)
AtPatch(snapCont, backupName) ==
    [pc |-> "patch", item |-> snapCont, backup |-> backupName, res |-> "none", calls |-> <<>>]

\* the deletion of a backup reaches the same content twice at once
ParallelDeletesStart ==
    /\ run.pc = "idle"
    /\ \E snapCont \in DeleteItems :
          run' = [pc |-> "deleting", pre |-> contents,
                  proc |-> [i \in Invocations |-> AtPatch(snapCont, "b1")]]
    /\ UNCHANGED <<mbrs, mrrs, rts, snaps, contents, inv>>

\* Execute of one invocation up to the return of the patch
DeletePatch(i) ==
    /\ run.pc = "deleting"
    /\ run.proc[i].pc = "patch"
    /\ LET p     == run.proc[i]
           r     == SetVolumeSnapshotContentDeletionPolicy(p.item.name, contents, "nil")
           calls == <<Call("patch", "vsc", "", p.item.name, r.err)>>
           next  == AfterPatch(r.err, p.item)
       IN  IF ~HasBackupLabel(p.item, p.backup)
           THEN /\ run' = [run EXCEPT !.proc[i] = Returned(p, "nil", <<>>)]
                /\ UNCHANGED contents
           ELSE /\ contents' = r.store
                /\ run' = [run EXCEPT !.proc[i] =
                              IF next = "continue"
                              THEN [p EXCEPT !.pc = "delete", !.calls = calls]
                              ELSE Returned(p, next, calls)]
    /\ UNCHANGED <<mbrs, mrrs, rts, snaps, inv>>

\* the delete call of one invocation, and its return
DeleteCall(i) ==
    /\ run.pc = "deleting"
    /\ run.proc[i].pc = "delete"
    /\ LET p     == run.proc[i]
           d     == DeleteContent(p.item.name, contents, "nil")
           calls == p.calls \o <<Call("delete", "vsc", "", p.item.name, d.err)>>
       IN  /\ contents' = d.store
           /\ run' = [run EXCEPT !.proc[i] =
                         Returned(p, IF d.err # "nil" /\ d.err # "NotFound" THEN "error" ELSE "nil",
                                  calls)]
    /\ UNCHANGED <<mbrs, mrrs, rts, snaps, inv>>

ParallelDeleteStep == \E i \in Invocations : DeletePatch(i) \/ DeleteCall(i)

NextParallelDeletes == ParallelDeletesStart \/ ParallelDeleteStep

SpecParallelDeletes == InitDelete /\ [][NextParallelDeletes]_vars

(***************************************************************************)
(* Quantities (resource.Quantity), held as a number of Ki                  *)
(***************************************************************************)
DigitValue(c) ==
    CASE c = "0" -> 0 [] c = "1" -> 1 [] c = "2" -> 2 [] c = "3" -> 3 [] c = "4" -> 4
      [] c = "5" -> 5 [] c = "6" -> 6 [] c = "7" -> 7 [] c = "8" -> 8 [] c = "9" -> 9
      [] OTHER -> -1

\* the length of the leading run of digits of s
RECURSIVE DigitsPrefix(_)
DigitsPrefix(s) ==
    IF Len(s) = 0 \/ DigitValue(SubSeq(s, 1, 1)) < 0 THEN 0
    ELSE 1 + DigitsPrefix(SubSeq(s, 2, Len(s)))

RECURSIVE DecimalValue(_)
DecimalValue(s) ==
    IF Len(s) = 0 THEN 0
    ELSE 10 * DecimalValue(SubSeq(s, 1, Len(s) - 1)) + DigitValue(SubSeq(s, Len(s), Len(s)))

\* the binary suffixes, in Ki
SuffixKi(suffix) ==
    CASE suffix = "Ki" -> 1 [] suffix = "Mi" -> 1024 [] suffix = "Gi" -> 1048576 [] OTHER -> 0

\* resource.ParseQuantity on <digits><binary suffix>; any other text here is no quantity
ParseQuantity(s) ==
    LET n      == DigitsPrefix(s)
        suffix == SubSeq(s, n + 1, Len(s))
    IN  IF n = 0 \/ SuffixKi(suffix) = 0
        THEN [ok |-> FALSE, ki |-> 0]
        ELSE [ok |-> TRUE, ki |-> DecimalValue(SubSeq(s, 1, n)) * SuffixKi(suffix)]

\* Quantity.Cmp
Cmp(a, b) == IF a.ki < b.ki THEN -1 ELSE IF a.ki > b.ki THEN 1 ELSE 0

NoQuantity == [ok |-> FALSE, ki |-> 0]

(***************************************************************************)
(* Claim rewrite: PVCRestoreItemAction                                     *)
(***************************************************************************)
AnnBindCompleted == "pv.kubernetes.io/bind-completed"
AnnBoundByController == "pv.kubernetes.io/bound-by-controller"
AnnStorageProvisioner == "volume.beta.kubernetes.io/storage-provisioner"
AnnSelectedNode == "volume.kubernetes.io/selected-node"

ProvisionerAnnotations ==
    {AnnBindCompleted, AnnBoundByController, AnnStorageProvisioner, AnnSelectedNode}

Restrict(f, S) == [k \in S |-> f[k]]

\* A plausible slip: the last annotation of the list is missed
removePVCAnnotationsMissOne(annotations, remove) ==
    IF annotations.isNil THEN MakeMap(<<>>)
    ELSE MakeMap(Restrict(annotations.kv, DOMAIN annotations.kv \ (remove \ {AnnSelectedNode})))

removePVCAnnotations(annotations, remove) ==
    IF annotations.isNil THEN MakeMap(<<>>)
    ELSE MakeMap(Restrict(annotations.kv, DOMAIN annotations.kv \ remove))

resetPVCSpec(pvc, vsName) ==
    [pvc EXCEPT !.volumeName = "",
                !.dataSource = [kind |-> "VolumeSnapshot", name |-> vsName]]

\* A plausible slip: the recorded size always replaces the request
setPVCStorageResourceRequestAlways(pvc, restoreSize) ==
    [pvc EXCEPT !.storage = restoreSize]

\* pvc.storage is the storage entry of spec.resources.requests; ok = FALSE when absent
setPVCStorageResourceRequest(pvc, restoreSize) ==
    IF ~pvc.storage.ok \/ Cmp(pvc.storage, restoreSize) < 0
    THEN [pvc EXCEPT !.storage = restoreSize]
    ELSE pvc

\* Restore.Spec.NamespaceMapping
MapNamespace(pvc, mapping) ==
    IF pvc.namespace \in DOMAIN mapping
    THEN [pvc EXCEPT !.namespace = mapping[pvc.namespace]]
    ELSE pvc

\* the name the action reads the ReplicationDestination under
PVCRepDestName == "dmr-mssql-pvc-rep-dest"

\* Execute of the claim restore action
PVCExecute(item, mapping, dmrStore, rdStore) ==
    LET pvc1    == MapNamespace(
                     [item EXCEPT !.annotations =
                                     removePVCAnnotations(item.annotations, ProvisionerAnnotations)],
                     mapping)
        dmrName == "dmr-" \o pvc1.name
        gerr    == ClientGet(dmrStore, pvc1.namespace, dmrName)
        gcall   == <<Call("get", "mrr", pvc1.namespace, dmrName, gerr)>>
        dmr     == Obj(dmrStore, pvc1.namespace, dmrName)
        rerr    == ClientGet(rdStore, dmr.protectedNamespace, PVCRepDestName)
        rcall   == <<Call("get", "rt", dmr.protectedNamespace, PVCRepDestName, rerr)>>
        rd      == Obj(rdStore, dmr.protectedNamespace, PVCRepDestName)
        size    == ParseQuantity(dmr.size)
        pvc2    == resetPVCSpec(setPVCStorageResourceRequest(pvc1, size), rd.latestImage)
    IN  IF gerr # "nil"
        THEN [res |-> "error", out |-> NoItem, calls |-> gcall]
        ELSE IF rerr # "nil"
        THEN [res |-> "error", out |-> NoItem, calls |-> gcall \o rcall]
        ELSE IF rd.statusIsNil \/ rd.latestImageIsNil
        THEN [res |-> "panic", out |-> NoItem, calls |-> gcall \o rcall]  \* nil dereference
        ELSE IF ~size.ok
        THEN [res |-> "panic", out |-> NoItem, calls |-> gcall \o rcall]  \* resource.MustParse
        ELSE [res |-> "nil", out |-> pvc2, calls |-> gcall \o rcall]

(***************************************************************************)
(* Inputs of the Claim rewrite                                             *)
(***************************************************************************)
ClaimNames == {"mssql-pvc", "p1"}

\* a MoverRestoreRequest in the store
MRR(ns, name, pvcName, size, repo, protectedNS) ==
    [kind |-> "mrr", namespace |-> ns, name |-> name, pvcName |-> pvcName, size |-> size,
     resticRepository |-> repo, protectedNamespace |-> protectedNS, snapshotHandle |-> ""]

\* a ReplicationDestination in the store
RT(ns, name, statusIsNil, synced, manual, lastManualSync, imageIsNil, image) ==
    [kind |-> "rt", namespace |-> ns, name |-> name, statusIsNil |-> statusIsNil,
     lastSyncTimeIsNil |-> ~synced, manual |-> manual, lastManualSync |-> lastManualSync,
     latestImageIsNil |-> imageIsNil, latestImage |-> image]

\* the target of a completed restore of claim p, with the Snapshot its sync produced
CompletedRT(p) ==
    RT("velero", "dmr-" \o p \o "-rep-dest", FALSE, TRUE, "dmr-" \o p, "dmr-" \o p,
       FALSE, "volsync-" \o p)

UnreconciledRT(p) ==
    RT("velero", "dmr-" \o p \o "-rep-dest", TRUE, FALSE, "dmr-" \o p, "", TRUE, "")

RecordedSizes == {"8Gi", "8192Mi", ""}

InitClaimMrrs ==
    { { MRR("ns1", "dmr-" \o p, p, y, "repo-1", "velero") : p \in S }
        : S \in SUBSET ClaimNames, y \in RecordedSizes }

InitClaimRts ==
    { {}, {CompletedRT("mssql-pvc")}, {CompletedRT("mssql-pvc"), CompletedRT("p1")},
      {UnreconciledRT("mssql-pvc"), CompletedRT("p1")} }

ClaimAnnotationSets ==
    { NilMap,
      MakeMap([k \in ProvisionerAnnotations \cup {"app"} |-> IF k = "app" THEN "db" ELSE "yes"]),
      MakeMap([k \in {AnnSelectedNode, "app", "team"} |-> IF k = AnnSelectedNode THEN "node-1" ELSE "db"]) }

ClaimRequests == {NoQuantity, ParseQuantity("5Gi"), ParseQuantity("8Gi"), ParseQuantity("10Gi")}

PVCItems ==
    { [kind |-> "pvc", name |-> p, namespace |-> ns, annotations |-> a, storage |-> x,
       volumeName |-> "pv-1", dataSource |-> [kind |-> "", name |-> ""]]
        : p \in ClaimNames, ns \in {"ns0", "ns1"}, a \in ClaimAnnotationSets, x \in ClaimRequests }

NamespaceMappings == { <<>>, [n \in {"ns0"} |-> "ns1"] }

\* an invocation of the claim restore action on a given item
PVCRestoreOn(item, mapping) ==
        LET r == PVCExecute(item, mapping, mrrs, rts)
        IN  /\ inv' = [op |-> "pvc", item |-> item, arg |-> [mapping |-> mapping],
                       pre |-> {}, calls |-> r.calls, res |-> r.res, out |-> r.out,
                       additional |-> <<>>]
            /\ UNCHANGED <<mbrs, mrrs, rts, snaps, contents, run>>

DoPVCRestore ==
    \E item \in PVCItems, mapping \in NamespaceMappings : PVCRestoreOn(item, mapping)

InitClaim ==
    /\ mbrs = {} /\ snaps = {} /\ contents = {}
    /\ mrrs \in InitClaimMrrs
    /\ rts \in InitClaimRts
    /\ inv = NoInvocation
    /\ run = NotRunning

NextClaim == DoPVCRestore

SpecClaim == InitClaim /\ [][NextClaim]_vars

(***************************************************************************)
(* Restore Orchestrator: DataMoverRestoreItemAction (from annotations,     *)
(* from status) and VolumeSnapshotRestoreRestoreItemAction                 *)
(***************************************************************************)
DatamoverResticRepository == "datamover.io/restic-repository"
DatamoverSourcePVCName == "datamover.io/source-pvc-name"
DatamoverSourcePVCSize == "datamover.io/source-pvc-size"

\* create DMR using DMB fields (the annotations)
CraftDMR(dmb) ==
    MRR(dmb.namespace, "dmr-" \o MapGet(dmb.annotations, DatamoverSourcePVCName),
        MapGet(dmb.annotations, DatamoverSourcePVCName),
        MapGet(dmb.annotations, DatamoverSourcePVCSize),
        MapGet(dmb.annotations, DatamoverResticRepository),
        dmb.protectedNamespace)

\* create DMR using DMB status fields; the protected namespace is not set
CraftDMRFromStatus(dmb) ==
    MRR(dmb.namespace, "dmr-" \o dmb.status.pvcName, dmb.status.pvcName, dmb.status.pvcSize,
        dmb.status.resticRepository, "")

\* create VSR using VSB fields (the annotations)
CraftVSR(vsb) ==
    MRR(vsb.namespace, "vsr-" \o MapGet(vsb.annotations, DatamoverSourcePVCName),
        MapGet(vsb.annotations, DatamoverSourcePVCName),
        MapGet(vsb.annotations, DatamoverSourcePVCSize),
        MapGet(vsb.annotations, DatamoverResticRepository),
        vsb.protectedNamespace)

CraftRequest(variant, item) ==
    CASE variant = "annotations" -> CraftDMR(item)
      [] variant = "status" -> CraftDMRFromStatus(item)
      [] OTHER -> CraftVSR(item)

\* the sync round asked for by the current manual trigger has completed
SyncCompleted(rd) ==
    ~(rd.statusIsNil \/ rd.lastSyncTimeIsNil \/ rd.manual # rd.lastManualSync)

\* A plausible slip: a sync time alone counts as completion, whatever the trigger
IsDataMoverRestoreCompletedAnySync(dmrStore, rdStore, datamoverNS, dataMoverRestoreName, protectedNS) ==
    LET gerr   == ClientGet(dmrStore, datamoverNS, dataMoverRestoreName)
        rdName == dataMoverRestoreName \o "-rep-dest"
    IN  IF gerr # "nil" THEN [done |-> FALSE, err |-> "error"]
        ELSE IF ClientGet(rdStore, protectedNS, rdName) # "nil" THEN [done |-> FALSE, err |-> "nil"]
        ELSE LET rd == Obj(rdStore, protectedNS, rdName)
             IN  [done |-> ~(rd.statusIsNil \/ rd.lastSyncTimeIsNil), err |-> "nil"]

\* one round of the condition polled by IsDataMoverRestoreCompleted
IsDataMoverRestoreCompleted(dmrStore, rdStore, datamoverNS, dataMoverRestoreName, protectedNS) ==
    LET gerr   == ClientGet(dmrStore, datamoverNS, dataMoverRestoreName)
        rdName == dataMoverRestoreName \o "-rep-dest"
    IN  IF gerr # "nil" THEN [done |-> FALSE, err |-> "error"]
        ELSE IF ClientGet(rdStore, protectedNS, rdName) # "nil" THEN [done |-> FALSE, err |-> "nil"]
        ELSE [done |-> SyncCompleted(Obj(rdStore, protectedNS, rdName)), err |-> "nil"]

\* the condition polled for a VolumeSnapshotRestore: the wait of section 4.5
IsVolumeSnapshotRestoreCompleted(vsrStore, rdStore, vsrNS, vsrName, protectedNS) ==
    LET gerr   == ClientGet(vsrStore, vsrNS, vsrName)
        rdName == vsrName \o "-rep-dest"
    IN  IF gerr # "nil" THEN [done |-> FALSE, err |-> "error"]
        ELSE IF ClientGet(rdStore, protectedNS, rdName) # "nil" THEN [done |-> FALSE, err |-> "nil"]
        ELSE [done |-> SyncCompleted(Obj(rdStore, protectedNS, rdName)), err |-> "nil"]

PollCondition(variant, req) ==
    IF variant = "annotations"
    THEN IsDataMoverRestoreCompleted(mrrs, rts, req.namespace, req.name, req.protectedNamespace)
    ELSE IsVolumeSnapshotRestoreCompleted(mrrs, rts, req.namespace, req.name, req.protectedNamespace)

\* the number of rounds of a wait: the timeout over the interval, kept small
PollRounds == 3

(***************************************************************************)
(* Inputs of the Restore Orchestrator                                      *)
(***************************************************************************)
CompletedStatus(p) ==
    [phase |-> "Completed", resticRepository |-> "repo-1", pvcName |-> p, pvcSize |-> "8Gi"]

CompletionAnnotations(p) ==
    MakeMap([k \in {DatamoverResticRepository, DatamoverSourcePVCName, DatamoverSourcePVCSize}
               |-> CASE k = DatamoverResticRepository -> "repo-1"
                     [] k = DatamoverSourcePVCName -> p
                     [] OTHER -> "8Gi"])

\* the restored MoverBackupRequest item: annotated with the status stripped by the
\* archive, with the status only, or without any completion data
MBRItems ==
    { [kind |-> "mbr", name |-> "vsb-snap-a", namespace |-> "ns1", content |-> "sc-a",
       protectedNamespace |-> "velero", annotations |-> a, status |-> st]
        : <<a, st>> \in
            { <<CompletionAnnotations("mssql-pvc"), NoStatus>>,
              <<NilMap, CompletedStatus("mssql-pvc")>>,
              <<NilMap, NoStatus>> } }

\* a target left by an earlier restore: synced for its trigger, or synced for an
\* older trigger than the one now set
StaleRT(name, lastManualSync) ==
    RT("velero", name \o "-rep-dest", FALSE, TRUE, name, lastManualSync, FALSE, "volsync-old")

InitRestoreRts ==
    { {}, {StaleRT("dmr-mssql-pvc", "dmr-mssql-pvc-old")}, {StaleRT("dmr-mssql-pvc", "dmr-mssql-pvc")} }

RequestTargetKey(req) == <<req.protectedNamespace, req.name \o "-rep-dest">>

TargetCompleted(rdStore, req) ==
    /\ Found(rdStore, req.protectedNamespace, req.name \o "-rep-dest")
    /\ SyncCompleted(Obj(rdStore, req.protectedNamespace, req.name \o "-rep-dest"))

\* the history of an invocation: the target was seen completed during it (completed),
\* a sync round ended after the request was created (synced), the invocation before it
\* was one for the same item that timed out (retried), and the target was completed
\* when it started (ready)
History(completed, synced, retried, ready) ==
    [completed |-> completed, synced |-> synced, retried |-> retried, ready |-> ready]

\* A plausible slip: the restored item is handed back to the pipeline
FinishedWithItem(variant, item, pre, calls, res, hist) ==
    [op |-> "restore", item |-> item,
     arg |-> [variant |-> variant, completed |-> hist.completed, synced |-> hist.synced,
              retried |-> hist.retried, ready |-> hist.ready],
     pre |-> pre, calls |-> calls, res |-> res,
     out |-> IF res = "nil" THEN item ELSE NoItem, additional |-> <<>>]

Finished(variant, item, pre, calls, res, hist) ==
    [op |-> "restore", item |-> item,
     arg |-> [variant |-> variant, completed |-> hist.completed, synced |-> hist.synced,
              retried |-> hist.retried, ready |-> hist.ready],
     pre |-> pre, calls |-> calls, res |-> res, out |-> NoItem, additional |-> <<>>]

\* Execute up to the wait, on a given item: the request is crafted and created
RestoreStartOn(variant, item) ==
        LET req   == CraftRequest(variant, item)
            cerr  == ClientCreate(mrrs, req)
            ccall == <<Call("create", "mrr", req.namespace, req.name, cerr)>>
            ready == TargetCompleted(rts, req)
            hist  == History(ready, FALSE,
                             /\ inv.op = "restore" /\ inv.res = "timeout"
                             /\ inv.item = item /\ inv.arg.variant = variant,
                             ready)
        IN  IF cerr # "nil"
            THEN /\ inv' = Finished(variant, item, mrrs, ccall, "error", hist)
                 /\ UNCHANGED <<mrrs, run>>
            ELSE /\ mrrs' = mrrs \cup {req}
                 /\ IF variant = "status"
                    THEN /\ inv' = Finished(variant, item, mrrs, ccall, "nil", hist)
                         /\ run' = run
                    ELSE /\ run' = [pc |-> "polling", variant |-> variant, item |-> item,
                                    req |-> req, pre |-> mrrs, calls |-> ccall, round |-> 0,
                                    hist |-> hist]
                         /\ inv' = NoInvocation

RestoreStart(variant) ==
    /\ run.pc = "idle"
    /\ \E item \in MBRItems : RestoreStartOn(variant, item)
    /\ UNCHANGED <<mbrs, rts, snaps, contents>>

RestoreFromAnnotations == RestoreStart("annotations")

RestoreFromStatus == RestoreStart("status")

RestoreVSB == RestoreStart("vsr")

\* A plausible slip: the request of a wait that timed out is cleaned up
RestorePollCleansUp ==
    /\ run.pc = "polling"
    /\ LET c     == PollCondition(run.variant, run.req)
           calls == run.calls \o <<Call("poll", "rt", run.req.protectedNamespace,
                                        run.req.name \o "-rep-dest",
                                        IF c.done THEN "done" ELSE c.err)>>
       IN  IF c.err # "nil"
           THEN /\ inv' = Finished(run.variant, run.item, run.pre, calls, "error", run.hist)
                /\ run' = NotRunning
                /\ mrrs' = mrrs
           ELSE IF c.done
           THEN /\ inv' = Finished(run.variant, run.item, run.pre, calls, "nil", run.hist)
                /\ run' = NotRunning
                /\ mrrs' = mrrs
           ELSE IF run.round + 1 >= PollRounds
           THEN /\ inv' = Finished(run.variant, run.item, run.pre, calls, "timeout", run.hist)
                /\ run' = NotRunning
                /\ mrrs' = { m \in mrrs : m.name # run.req.name }
           ELSE /\ run' = [run EXCEPT !.round = @ + 1, !.calls = calls]
                /\ UNCHANGED <<inv, mrrs>>
    /\ UNCHANGED <<mbrs, rts, snaps, contents>>

\* one round of wait.PollImmediate, and the rest of Execute once the wait ends
RestorePoll ==
    /\ run.pc = "polling"
    /\ LET c     == PollCondition(run.variant, run.req)
           calls == run.calls \o <<Call("poll", "rt", run.req.protectedNamespace,
                                        run.req.name \o "-rep-dest",
                                        IF c.done THEN "done" ELSE c.err)>>
       IN  IF c.err # "nil"
           THEN /\ inv' = Finished(run.variant, run.item, run.pre, calls, "error", run.hist)
                /\ run' = NotRunning
           ELSE IF c.done
           THEN /\ inv' = Finished(run.variant, run.item, run.pre, calls, "nil", run.hist)
                /\ run' = NotRunning
           ELSE IF run.round + 1 >= PollRounds
           THEN /\ inv' = Finished(run.variant, run.item, run.pre, calls, "timeout", run.hist)
                /\ run' = NotRunning
           ELSE /\ run' = [run EXCEPT !.round = @ + 1, !.calls = calls]
                /\ UNCHANGED inv
    /\ UNCHANGED <<mbrs, mrrs, rts, snaps, contents>>

\* the history of the wait: the target of the request in progress has completed
NoteCompleted(rdStore, syncedKey) ==
    IF run.pc = "polling"
    THEN run' = [run EXCEPT !.hist.completed = @ \/ TargetCompleted(rdStore, run.req),
                            !.hist.synced = @ \/ syncedKey = RequestTargetKey(run.req)]
    ELSE run' = run

\* the mover controller creates the ReplicationDestination of a request
MoverCreatesTarget ==
    \E m \in mrrs :
        /\ m.protectedNamespace # ""
        /\ ~Found(rts, m.protectedNamespace, m.name \o "-rep-dest")
        /\ rts' = rts \cup {RT(m.protectedNamespace, m.name \o "-rep-dest", TRUE, FALSE,
                               m.name, "", TRUE, "")}
        /\ NoteCompleted(rts', <<>>)
        /\ UNCHANGED <<mbrs, mrrs, snaps, contents, inv>>

\* the mover completes the sync round of the current trigger
MoverSyncs ==
    \E rd \in rts :
        /\ ~SyncCompleted(rd)
        /\ rts' = (rts \ {rd}) \cup
                    {[rd EXCEPT !.statusIsNil = FALSE, !.lastSyncTimeIsNil = FALSE,
                                !.lastManualSync = rd.manual, !.latestImageIsNil = FALSE,
                                !.latestImage = "volsync-new"]}
        /\ NoteCompleted(rts', <<rd.namespace, rd.name>>)
        /\ UNCHANGED <<mbrs, mrrs, snaps, contents, inv>>

InitRestore ==
    /\ mbrs = {} /\ mrrs = {} /\ snaps = {} /\ contents = {}
    /\ rts \in InitRestoreRts
    /\ inv = NoInvocation
    /\ run = NotRunning

NextRestore ==
    \/ RestoreFromAnnotations
    \/ RestoreFromStatus
    \/ RestoreVSB
    \/ RestorePoll
    \/ MoverCreatesTarget
    \/ MoverSyncs

SpecRestore == InitRestore /\ [][NextRestore]_vars

(***************************************************************************)
(* Mover-Status Propagator: DataMoverBackupItemAction                      *)
(***************************************************************************)
DatamoverBackupPhaseCompleted == "Completed"

\* AppliesTo: the resources the action is invoked for, as resource.group
DataMoverBackupIncludedResources == {"datamoverbackups.pvc.oadp.openshift.io"}

\* schema.GroupResource.String
GroupResourceString(gr) ==
    IF Len(gr.group) = 0 THEN gr.resource ELSE gr.resource \o "." \o gr.group

\* the selector applies to a resource identifier
AppliesTo(includedResources, id) == GroupResourceString(id) \in includedResources

\* A plausible slip: any terminal phase of the mover ends the wait
DataMoverBackupDoneOrFailed(dmb) ==
    dmb.status.phase \in {DatamoverBackupPhaseCompleted, "Failed"}

\* the condition polled by GetDataMoverbackupWithCompletedStatus, on the live object
DataMoverBackupDone(dmb) ==
    ~(Len(dmb.status.phase) = 0 \/ dmb.status.phase # DatamoverBackupPhaseCompleted)

\* util.AddAnnotations: a nil map is made, the values are set over what is there
AddAnnotations(o, vals) ==
    [o EXCEPT !.annotations =
        MakeMap([k \in DOMAIN o.annotations.kv \cup DOMAIN vals
                   |-> IF k \in DOMAIN vals THEN vals[k] ELSE o.annotations.kv[k]])]

\* the status fields copied to annotations
StatusAnnotations(status) ==
    [k \in {DatamoverResticRepository, DatamoverSourcePVCName, DatamoverSourcePVCSize}
       |-> CASE k = DatamoverResticRepository -> status.resticRepository
             [] k = DatamoverSourcePVCName -> status.pvcName
             [] OTHER -> status.pvcSize]

\* A plausible slip: the annotations are taken from the status of the item, as collected
PropagateStatusFromItem(dmb, dmbNew) ==
    AddAnnotations([dmb EXCEPT !.status = dmbNew.status], StatusAnnotations(dmb.status))

\* Execute after the wait: the item takes the live status and the annotations
PropagateStatus(dmb, dmbNew) ==
    AddAnnotations([dmb EXCEPT !.status = dmbNew.status], StatusAnnotations(dmbNew.status))

\* velero strips the status subresource of the objects it archives
ArchiveStrip(item) == [item EXCEPT !.status = NoStatus]

(***************************************************************************)
(* Inputs of the Mover-Status Propagator                                   *)
(***************************************************************************)
\* a MoverBackupRequest in the store, in a phase of the mover
LiveMBR(phase, p) ==
    [kind |-> "mbr", name |-> "dmb-snap-a", namespace |-> "ns1", content |-> "sc-a",
     protectedNamespace |-> "velero", annotations |-> NilMap,
     status |-> IF phase = DatamoverBackupPhaseCompleted
                THEN CompletedStatus(p)
                ELSE [NoStatus EXCEPT !.phase = phase]]

MoverPhases == {"", "New", "InProgress", "Failed", DatamoverBackupPhaseCompleted}

InitPropagateMbrs == {{}} \cup { {LiveMBR(ph, "mssql-pvc")} : ph \in MoverPhases }

\* the item as the backup collected it: its status is the one of that moment
PropagatorItems ==
    { [kind |-> "mbr", name |-> "dmb-snap-a", namespace |-> "ns1", content |-> "sc-a",
       protectedNamespace |-> "velero", annotations |-> a, status |-> NoStatus]
        : a \in { NilMap,
                  MakeMap([k \in {"app", DatamoverSourcePVCName}
                             |-> IF k = "app" THEN "db" ELSE "an-older-claim"]) } }

Propagated(item, pre, calls, res, out, observed) ==
    [op |-> "propagate", item |-> item, arg |-> [observed |-> observed], pre |-> pre,
     calls |-> calls, res |-> res, out |-> out, additional |-> <<>>]

\* Execute up to the wait
PropagateStart ==
    /\ run.pc = "idle"
    /\ \E item \in PropagatorItems :
          run' = [pc |-> "waiting", item |-> item, pre |-> mbrs, calls |-> <<>>,
                  round |-> 0, observed |-> <<>>]
    /\ inv' = NoInvocation
    /\ UNCHANGED <<mbrs, mrrs, rts, snaps, contents>>

\* A plausible slip: the wait has no deadline (wait.PollInfinite); its rounds are not counted
PropagatePollNoDeadline ==
    /\ run.pc = "waiting"
    /\ LET gerr  == ClientGet(mbrs, run.item.namespace, run.item.name)
           calls == run.calls \o <<Call("get", "mbr", run.item.namespace, run.item.name, gerr)>>
           dmb   == Obj(mbrs, run.item.namespace, run.item.name)
           seen  == Append(run.observed, dmb.status.phase)
       IN  IF gerr # "nil"
           THEN /\ inv' = Propagated(run.item, run.pre, calls, "error", NoItem, run.observed)
                /\ run' = NotRunning
           ELSE IF DataMoverBackupDone(dmb)
           THEN /\ inv' = Propagated(run.item, run.pre, calls, "nil",
                                     PropagateStatus(run.item, dmb), seen)
                /\ run' = NotRunning
           ELSE /\ run' = [run EXCEPT !.round = 0, !.calls = <<>>, !.observed = <<>>]
                /\ UNCHANGED inv
    /\ UNCHANGED <<mbrs, mrrs, rts, snaps, contents>>

\* one round of wait.PollImmediate, and the rest of Execute once the wait ends
PropagatePoll ==
    /\ run.pc = "waiting"
    /\ LET gerr  == ClientGet(mbrs, run.item.namespace, run.item.name)
           calls == run.calls \o <<Call("get", "mbr", run.item.namespace, run.item.name, gerr)>>
           dmb   == Obj(mbrs, run.item.namespace, run.item.name)
           seen  == Append(run.observed, dmb.status.phase)
       IN  IF gerr # "nil"
           THEN /\ inv' = Propagated(run.item, run.pre, calls, "error", NoItem, run.observed)
                /\ run' = NotRunning
           ELSE IF DataMoverBackupDone(dmb)
           THEN /\ inv' = Propagated(run.item, run.pre, calls, "nil",
                                     PropagateStatus(run.item, dmb), seen)
                /\ run' = NotRunning
           ELSE IF run.round + 1 >= PollRounds
           THEN /\ inv' = Propagated(run.item, run.pre, calls, "timeout", NoItem, seen)
                /\ run' = NotRunning
           ELSE /\ run' = [run EXCEPT !.round = @ + 1, !.calls = calls, !.observed = seen]
                /\ UNCHANGED inv
    /\ UNCHANGED <<mbrs, mrrs, rts, snaps, contents>>

\* the mover controller takes a request through its phases
MoverAdvances ==
    \E m \in mbrs :
        /\ \/ m.status.phase = "" /\ mbrs' = (mbrs \ {m}) \cup {[m EXCEPT !.status.phase = "New"]}
           \/ m.status.phase = "New"
                /\ mbrs' = (mbrs \ {m}) \cup {[m EXCEPT !.status.phase = "InProgress"]}
           \/ m.status.phase = "InProgress"
                /\ \E st \in { CompletedStatus(p) : p \in ClaimNames }
                              \cup {[NoStatus EXCEPT !.phase = "Failed"]} :
                      mbrs' = (mbrs \ {m}) \cup {[m EXCEPT !.status = st]}
        /\ UNCHANGED <<mrrs, rts, snaps, contents, inv, run>>

InitPropagate ==
    /\ mbrs \in InitPropagateMbrs
    /\ mrrs = {} /\ rts = {} /\ snaps = {} /\ contents = {}
    /\ inv = NoInvocation
    /\ run = NotRunning

NextPropagate == PropagateStart \/ PropagatePoll \/ MoverAdvances

SpecPropagate == InitPropagate /\ [][NextPropagate]_vars

(***************************************************************************)
(* The round trip of the completion data: the item the propagator emitted  *)
(* goes through the archive and is restored                                *)
(***************************************************************************)
RestoreArchived ==
    /\ run.pc = "idle"
    /\ inv.op = "propagate" /\ inv.res = "nil"
    /\ \E variant \in {"annotations", "status", "vsr"} :
          RestoreStartOn(variant, ArchiveStrip(inv.out))
    /\ UNCHANGED <<mbrs, rts, snaps, contents>>

NextRoundTrip ==
    \/ PropagateStart
    \/ PropagatePoll
    \/ MoverAdvances
    \/ RestoreArchived
    \/ RestorePoll

SpecRoundTrip == InitPropagate /\ [][NextRoundTrip]_vars

(***************************************************************************)
(* Snapshot rewrite: VolumeSnapshotRestoreItemAction, reading the          *)
(* VolumeSnapshotRestore (part_001) and reading the DataMoverRestore       *)
(* (internal/restore/volumesnapshot_action.go)                             *)
(***************************************************************************)
CSIDriverNameAnnotation == "velero.io/csi-driver-name"
CSIVSCDeletionPolicy == "velero.io/csi-vsc-deletion-policy"

MapPut(m, k, v) == MakeMap([x \in DOMAIN m.kv \cup {k} |-> IF x = k THEN v ELSE m.kv[x]])

\* A plausible slip: the content is given the volume of the claim as a second source
StaticContentWithVolume(name, restoreName, policy, driver, refNS, refName, handle) ==
    [kind |-> "vsc", name |-> name, namespace |-> "", deletionPolicy |-> policy,
     driver |-> driver, refNamespace |-> refNS, refName |-> refName,
     snapshotHandleIsNil |-> FALSE, snapshotHandle |-> handle,
     volumeHandleIsNil |-> FALSE, volumeHandle |-> "vol-" \o refName,
     restoreName |-> GetValidName(restoreName),
     status |-> [isNil |-> TRUE, handleIsNil |-> TRUE, snapshotHandle |-> ""]]

\* a statically bound content, as the rewrite creates it
StaticContent(name, restoreName, policy, driver, refNS, refName, handle) ==
    [kind |-> "vsc", name |-> name, namespace |-> "", deletionPolicy |-> policy,
     driver |-> driver, refNamespace |-> refNS, refName |-> refName,
     snapshotHandleIsNil |-> FALSE, snapshotHandle |-> handle,
     volumeHandleIsNil |-> TRUE, volumeHandle |-> "", restoreName |-> GetValidName(restoreName),
     status |-> [isNil |-> TRUE, handleIsNil |-> TRUE, snapshotHandle |-> ""]]

\* A plausible slip: the content becomes the source and the claim stays one
resetVolumeSnapshotSpecForRestoreKeepsClaim(vs, vscName) ==
    [vs EXCEPT !.contentNameIsNil = FALSE, !.contentName = vscName]

resetVolumeSnapshotSpecForRestore(vs, vscName) ==
    [vs EXCEPT !.pvcNameIsNil = TRUE, !.pvcName = "",
               !.contentNameIsNil = FALSE, !.contentName = vscName]

resetVolumeSnapshotAnnotation(vs) ==
    [vs EXCEPT !.annotations = MapPut(vs.annotations, CSIVSCDeletionPolicy, "Retain")]

\* the Get of the Snapshot; `fault` is an API error the call meets
GetVolumeSnapshot(volSnap, vsStore, fault) ==
    IF fault # "nil" THEN fault ELSE ClientGet(vsStore, volSnap.namespace, volSnap.name)

\* exists only when the Get returned no error: any error reads as "does not exist"
IsVolumeSnapshotExists(volSnap, vsStore, fault) ==
    GetVolumeSnapshot(volSnap, vsStore, fault) = "nil"

SnapResult(res, out, calls, store) ==
    [res |-> res, out |-> out, calls |-> calls, store |-> store]

\* Execute of the snapshot restore action that reads the VolumeSnapshotRestore
VSRSnapshotExecute(vs, restoreName, vsrStore, vsStore, vscStore, fault) ==
    LET name  == "vsr-" \o vs.pvcName
        gerr  == ClientGet(vsrStore, vs.namespace, name)
        gcall == <<Call("get", "mrr", vs.namespace, name, gerr)>>
        vcall == <<Call("get", "vs", vs.namespace, vs.name,
                        GetVolumeSnapshot(vs, vsStore, fault))>>
        vsr   == Obj(vsrStore, vs.namespace, name)
        vsc   == StaticContent("vsr-vsc-" \o vsr.pvcName, restoreName, "Retain",
                               MapGet(vs.annotations, CSIDriverNameAnnotation),
                               vs.namespace, vs.name, vsr.snapshotHandle)
        cerr  == ClientCreate(vscStore, vsc)
        ccall == <<Call("create", "vsc", "", vsc.name, cerr)>>
    IN  IF vs.pvcNameIsNil
        THEN SnapResult("panic", NoItem, <<>>, vscStore)   \* nil dereference
        ELSE IF gerr # "nil"
        THEN SnapResult("error", NoItem, gcall, vscStore)
        ELSE IF IsVolumeSnapshotExists(vs, vsStore, fault)
        THEN SnapResult("nil", vs, gcall \o vcall, vscStore)
        ELSE IF ~MapHas(vs.annotations, CSIDriverNameAnnotation)
        THEN SnapResult("error", NoItem, gcall \o vcall, vscStore)
        ELSE IF cerr # "nil"
        THEN SnapResult("error", NoItem, gcall \o vcall \o ccall, vscStore)
        ELSE SnapResult("nil",
                        resetVolumeSnapshotAnnotation(resetVolumeSnapshotSpecForRestore(vs, vsc.name)),
                        gcall \o vcall \o ccall, vscStore \cup {vsc})

\* the name the action reads the DataMoverRestore under, and the name it gives the content
SnapshotDMRName == "dmr-mssql-pvc"
SnapshotContentName == "VSC-DM-test"

\* GetVolSyncSnapContent: the content bound to the Snapshot of the target's latestImage
GetVolSyncSnapContent(repDest, protectedNS, vsStore, vscStore) ==
    LET verr  == ClientGet(vsStore, protectedNS, repDest.latestImage)
        vcall == <<Call("get", "vs", protectedNS, repDest.latestImage, verr)>>
        vs    == Obj(vsStore, protectedNS, repDest.latestImage)
        cerr  == ClientGet(vscStore, "", vs.boundContent)
        ccall == <<Call("get", "vsc", "", vs.boundContent, cerr)>>
    IN  IF repDest.statusIsNil \/ repDest.latestImageIsNil
        THEN [res |-> "panic", calls |-> <<>>, vsc |-> NoItem]
        ELSE IF verr # "nil"
        THEN [res |-> "error", calls |-> vcall, vsc |-> NoItem]
        ELSE IF vs.statusIsNil \/ vs.boundContentIsNil
        THEN [res |-> "panic", calls |-> vcall, vsc |-> NoItem]
        ELSE IF cerr # "nil"
        THEN [res |-> "error", calls |-> vcall \o ccall, vsc |-> NoItem]
        ELSE [res |-> "nil", calls |-> vcall \o ccall, vsc |-> Obj(vscStore, "", vs.boundContent)]

\* the deletion policy of the content: the Snapshot's annotation, Retain without one
DeletionPolicyFor(vs) ==
    IF MapHas(vs.annotations, CSIVSCDeletionPolicy)
    THEN MapGet(vs.annotations, CSIVSCDeletionPolicy)
    ELSE "Retain"

\* Execute of the snapshot restore action that reads the DataMoverRestore
DMRSnapshotExecute(vs, restoreName, dmrStore, rdStore, vsStore, vscStore) ==
    LET gerr  == ClientGet(dmrStore, vs.namespace, SnapshotDMRName)
        gcall == <<Call("get", "mrr", vs.namespace, SnapshotDMRName, gerr)>>
        dmr   == Obj(dmrStore, vs.namespace, SnapshotDMRName)
        rname == dmr.name \o "-rep-dest"
        rerr  == ClientGet(rdStore, dmr.protectedNamespace, rname)
        rcall == <<Call("get", "rt", dmr.protectedNamespace, rname, rerr)>>
        rd    == Obj(rdStore, dmr.protectedNamespace, rname)
        found == GetVolSyncSnapContent(rd, dmr.protectedNamespace, vsStore, vscStore)
        reads == gcall \o rcall \o found.calls
        vsc   == StaticContent(SnapshotContentName, restoreName, DeletionPolicyFor(vs),
                               MapGet(vs.annotations, CSIDriverNameAnnotation),
                               dmr.protectedNamespace, rd.latestImage,
                               found.vsc.status.snapshotHandle)
        cerr  == ClientCreate(vscStore, vsc)
        ccall == <<Call("create", "vsc", "", vsc.name, cerr)>>
    IN  IF gerr # "nil"
        THEN SnapResult("error", NoItem, gcall, vscStore)
        ELSE IF rerr # "nil"
        THEN SnapResult("error", NoItem, gcall \o rcall, vscStore)
        ELSE IF found.res # "nil"
        THEN SnapResult(found.res, NoItem, reads, vscStore)
        ELSE IF found.vsc.status.isNil \/ found.vsc.status.handleIsNil
        THEN SnapResult("panic", NoItem, reads, vscStore)   \* nil dereference
        ELSE IF ~MapHas(vs.annotations, CSIDriverNameAnnotation)
        THEN SnapResult("error", NoItem, reads, vscStore)
        ELSE IF cerr # "nil"
        THEN SnapResult("error", NoItem, reads \o ccall, vscStore)
        ELSE SnapResult("nil", NoItem, reads \o ccall, vscStore \cup {vsc})

(***************************************************************************)
(* Inputs of the Snapshot rewrite                                          *)
(***************************************************************************)
\* a Snapshot in the store
Snapshot(ns, name, bound) ==
    [kind |-> "vs", namespace |-> ns, name |-> name, statusIsNil |-> FALSE,
     boundContentIsNil |-> bound = "", boundContent |-> bound]

SnapshotAnnotationSets ==
    { NilMap,
      MakeMap([k \in {CSIDriverNameAnnotation} |-> "csi-driver"]),
      MakeMap([k \in {CSIDriverNameAnnotation, CSIVSCDeletionPolicy}
                 |-> IF k = CSIDriverNameAnnotation THEN "csi-driver" ELSE "Delete"]),
      MakeMap([k \in {CSIDriverNameAnnotation, CSIVSCDeletionPolicy}
                 |-> IF k = CSIDriverNameAnnotation THEN "csi-driver" ELSE "Retain"]) }

\* the Snapshot item, sourced from a claim or from a content
SnapshotItems ==
    { [kind |-> "vs", namespace |-> "ns1", name |-> "snap-a",
       pvcNameIsNil |-> src[1] = "", pvcName |-> src[1],
       contentNameIsNil |-> src[2] = "", contentName |-> src[2], annotations |-> a]
        : src \in { <<"mssql-pvc", "">>, <<"p1", "">>, <<"", "sc-a">> },
          a \in SnapshotAnnotationSets }

RestoreNames == {"r1"}

\* the objects a completed restore of claim p leaves: the request with the handle it
\* resolved, and the Snapshot and content the mover's sync produced
CompletedRequest(prefix, p) ==
    [MRR("ns1", prefix \o p, p, "8Gi", "repo-1", "velero") EXCEPT !.snapshotHandle = "handle-" \o p]

MoverSnapshot(p) == Snapshot("velero", "volsync-" \o p, "volsync-content-" \o p)

MoverContent(p) ==
    [Content("volsync-content-" \o p, "Delete", "handle-" \o p)
        EXCEPT !.refNamespace = "velero", !.refName = "volsync-" \o p]

InitSnapshotMrrs ==
    { {}, {CompletedRequest("vsr-", "mssql-pvc"), CompletedRequest("dmr-", "mssql-pvc")},
      {CompletedRequest("vsr-", "mssql-pvc"), CompletedRequest("vsr-", "p1"),
       CompletedRequest("dmr-", "mssql-pvc"), CompletedRequest("dmr-", "p1")} }

InitSnapshotRts ==
    { {}, {CompletedRT("mssql-pvc"), CompletedRT("p1")}, {UnreconciledRT("mssql-pvc")} }

InitSnapshotSnaps ==
    { {MoverSnapshot("mssql-pvc"), MoverSnapshot("p1")},
      {MoverSnapshot("mssql-pvc"), MoverSnapshot("p1"), Snapshot("ns1", "snap-a", "")} }

\* an invocation whose Get of the Snapshot meets the API error `fault`, or none
SnapshotRestoreVSROn(vs, restoreName, fault) ==
        LET r == VSRSnapshotExecute(vs, restoreName, mrrs, snaps, contents, fault)
        IN  /\ contents' = r.store
            /\ inv' = [op |-> "snapshot", item |-> vs,
                       arg |-> [variant |-> "vsr", restoreName |-> restoreName],
                       pre |-> contents, calls |-> r.calls, res |-> r.res, out |-> r.out,
                       additional |-> <<>>]
            /\ UNCHANGED <<mbrs, mrrs, rts, snaps, run>>

SnapshotRestoreVSRWith(fault) ==
    \E vs \in SnapshotItems, restoreName \in RestoreNames :
        SnapshotRestoreVSROn(vs, restoreName, fault)

DoSnapshotRestoreVSR == SnapshotRestoreVSRWith("nil")

DoSnapshotRestoreVSRFaulty == SnapshotRestoreVSRWith("Error")

SnapshotRestoreDMROn(vs, restoreName) ==
        LET r == DMRSnapshotExecute(vs, restoreName, mrrs, rts, snaps, contents)
        IN  /\ contents' = r.store
            /\ inv' = [op |-> "snapshot", item |-> vs,
                       arg |-> [variant |-> "dmr", restoreName |-> restoreName],
                       pre |-> contents, calls |-> r.calls, res |-> r.res, out |-> r.out,
                       additional |-> <<>>]
            /\ UNCHANGED <<mbrs, mrrs, rts, snaps, run>>

DoSnapshotRestoreDMR ==
    \E vs \in SnapshotItems, restoreName \in RestoreNames : SnapshotRestoreDMROn(vs, restoreName)

InitSnapshot ==
    /\ mbrs = {}
    /\ mrrs \in InitSnapshotMrrs
    /\ rts \in InitSnapshotRts
    /\ snaps \in InitSnapshotSnaps
    /\ contents = {MoverContent("mssql-pvc"), MoverContent("p1")}
    /\ inv = NoInvocation
    /\ run = NotRunning

NextSnapshot == DoSnapshotRestoreVSR \/ DoSnapshotRestoreDMR

SpecSnapshot == InitSnapshot /\ [][NextSnapshot]_vars

\* the rewrite that reads the VolumeSnapshotRestore, with an API server that may fail
NextSnapshotFaults == DoSnapshotRestoreVSR \/ DoSnapshotRestoreVSRFaulty

SpecSnapshotFaults == InitSnapshot /\ [][NextSnapshotFaults]_vars

(***************************************************************************)
(* The contents under every action that writes them: the Snapshot rewrite  *)
(* and the Deletion Guard, run for a later backup that holds a content of  *)
(* the store                                                               *)
(***************************************************************************)
\* the item of a content of the store in a backup named b
BackedUpContent(c, b) ==
    [kind |-> "vsc", name |-> c.name, namespace |-> "",
     labels |-> MakeMap([k \in {BackupNameLabel} |-> b]), status |-> c.status]

DoDeleteStored ==
    \E c \in contents, backupName \in {"b1", "b2"}, faults \in DeleteFaults :
        LET snapCont == BackedUpContent(c, "b1")
            r        == DeleteExecute(snapCont, backupName, contents, faults)
        IN  /\ contents' = r.store
            /\ inv' = [op |-> "delete", item |-> snapCont, arg |-> [name |-> backupName],
                       pre |-> contents, calls |-> r.calls, res |-> r.res, out |-> NoItem,
                       additional |-> <<>>]
            /\ UNCHANGED <<mbrs, mrrs, rts, snaps, run>>

NextContent == DoSnapshotRestoreVSR \/ DoSnapshotRestoreDMR \/ DoDeleteStored

SpecContent == InitSnapshot /\ [][NextContent]_vars

(***************************************************************************)
(* The restore of a claim, stage by stage: the Restore Orchestrator issues *)
(* the request from the archived MoverBackupRequest, the mover works, and  *)
(* the Snapshot and the Claim of that claim are rewritten                  *)
(***************************************************************************)
\* the archived MoverBackupRequest of claim p
ArchivedMBR(p) ==
    [kind |-> "mbr", name |-> "dmb-snap-" \o p, namespace |-> "ns1", content |-> "sc-" \o p,
     protectedNamespace |-> "velero", annotations |-> CompletionAnnotations(p),
     status |-> NoStatus]

\* the archived claim p
ArchivedClaim(p) ==
    [kind |-> "pvc", name |-> p, namespace |-> "ns1", annotations |-> NilMap,
     storage |-> ParseQuantity("5Gi"), volumeName |-> "pv-1",
     dataSource |-> [kind |-> "", name |-> ""]]

\* the archived Snapshot of claim p
ArchivedSnapshot(p) ==
    [kind |-> "vs", namespace |-> "ns1", name |-> "snap-" \o p,
     pvcNameIsNil |-> FALSE, pvcName |-> p, contentNameIsNil |-> TRUE, contentName |-> "",
     annotations |-> MakeMap([k \in {CSIDriverNameAnnotation} |-> "csi-driver"])]

StageRequest ==
    /\ run.pc = "idle"
    /\ \E p \in ClaimNames : RestoreStartOn("annotations", ArchivedMBR(p))
    /\ UNCHANGED <<mbrs, rts, snaps, contents>>

StageSnapshotVSR ==
    /\ run.pc = "idle"
    /\ \E p \in ClaimNames : SnapshotRestoreVSROn(ArchivedSnapshot(p), "r1", "nil")

StageSnapshotDMR ==
    /\ run.pc = "idle"
    /\ \E p \in ClaimNames : SnapshotRestoreDMROn(ArchivedSnapshot(p), "r1")

StageClaim ==
    /\ run.pc = "idle"
    /\ \E p \in ClaimNames : PVCRestoreOn(ArchivedClaim(p), <<>>)

InitStages ==
    /\ mbrs = {} /\ mrrs = {} /\ rts = {} /\ snaps = {} /\ contents = {}
    /\ inv = NoInvocation
    /\ run = NotRunning

NextStages ==
    \/ StageRequest
    \/ RestorePoll
    \/ MoverCreatesTarget
    \/ MoverSyncs
    \/ StageSnapshotVSR
    \/ StageSnapshotDMR
    \/ StageClaim

SpecStages == InitStages /\ [][NextStages]_vars

(***************************************************************************)
(* Every action of the plugin over one store: the backup of a content, the *)
(* propagation of the mover's status, the deletion of a backup, and the    *)
(* restore of a request, of a Snapshot and of a claim                      *)
(***************************************************************************)
SystemBackup == run.pc = "idle" /\ DoBackup

SystemDelete == run.pc = "idle" /\ DoDeleteStored

InitSystem ==
    /\ mbrs = {LegacyDMB("snap-a", "")}
    /\ mrrs = {} /\ rts = {}
    /\ snaps = {MoverSnapshot("mssql-pvc"), MoverSnapshot("p1")}
    /\ contents = {MoverContent("mssql-pvc")}
    /\ inv = NoInvocation
    /\ run = NotRunning

NextSystem ==
    \/ SystemBackup
    \/ PropagateStart
    \/ PropagatePoll
    \/ SystemDelete
    \/ StageRequest
    \/ RestorePoll
    \/ StageSnapshotVSR
    \/ StageSnapshotDMR
    \/ StageClaim

SpecSystem == InitSystem /\ [][NextSystem]_vars

(***************************************************************************)
(* The blocking waits: for the mover to complete a backup, for the mover   *)
(* to complete a restore, and for the CSI driver to reconcile a Snapshot.  *)
(* The controllers move when they please, or never                         *)
(***************************************************************************)
\* a content the driver has created and not yet given a snapshot handle
PendingContent(name, vs) ==
    [Content(name, "Delete", "")
        EXCEPT !.refNamespace = vs.namespace, !.refName = vs.name,
               !.status = [isNil |-> TRUE, handleIsNil |-> TRUE, snapshotHandle |-> ""]]

\* the condition of the wait of GetVolumeSnapshotContentForVolumeSnapshot
ReconcileCondition(vsStore, vscStore, ns, name) ==
    LET verr  == ClientGet(vsStore, ns, name)
        vcall == <<Call("get", "vs", ns, name, verr)>>
    IN  IF verr # "nil"
        THEN [done |-> FALSE, err |-> verr, calls |-> vcall, content |-> NoItem]
        ELSE LET vs == Obj(vsStore, ns, name)
             IN  IF vs.statusIsNil \/ vs.boundContentIsNil
                 THEN [done |-> FALSE, err |-> "nil", calls |-> vcall, content |-> NoItem]
                 ELSE LET cerr  == ClientGet(vscStore, "", vs.boundContent)
                          calls == vcall \o <<Call("get", "vsc", "", vs.boundContent, cerr)>>
                      IN  IF cerr # "nil"
                          THEN [done |-> FALSE, err |-> cerr, calls |-> calls, content |-> NoItem]
                          ELSE LET c == Obj(vscStore, "", vs.boundContent)
                               IN  [done |-> ~(c.status.isNil \/ c.status.handleIsNil),
                                    err |-> "nil", calls |-> calls, content |-> c]

\* the Snapshots whose content is waited for: one of the store, one that is not there
ReconciledSnapshots == { <<"ns1", "snap-a">>, <<"ns1", "snap-gone">> }

Reconciled(item, pre, calls, res, out) ==
    [op |-> "reconcile", item |-> item, arg |-> NoItem, pre |-> pre, calls |-> calls,
     res |-> res, out |-> out, additional |-> <<>>]

\* GetVolumeSnapshotContentForVolumeSnapshot with shouldWait, up to the wait
ReconcileStart ==
    /\ run.pc = "idle"
    /\ \E k \in ReconciledSnapshots :
          run' = [pc |-> "reconciling", item |-> [kind |-> "vs", namespace |-> k[1], name |-> k[2]],
                  pre |-> contents, calls |-> <<>>, round |-> 0]
    /\ inv' = NoInvocation
    /\ UNCHANGED <<mbrs, mrrs, rts, snaps, contents>>

\* one round of wait.PollImmediate, and the return once the wait ends
ReconcilePoll ==
    /\ run.pc = "reconciling"
    /\ LET c     == ReconcileCondition(snaps, contents, run.item.namespace, run.item.name)
           calls == run.calls \o c.calls
       IN  IF c.err # "nil"
           THEN /\ inv' = Reconciled(run.item, run.pre, calls, "error", NoItem)
                /\ run' = NotRunning
           ELSE IF c.done
           THEN /\ inv' = Reconciled(run.item, run.pre, calls, "nil", c.content)
                /\ run' = NotRunning
           ELSE IF run.round + 1 >= PollRounds
           THEN /\ inv' = Reconciled(run.item, run.pre, calls, "timeout", NoItem)
                /\ run' = NotRunning
           ELSE /\ run' = [run EXCEPT !.round = @ + 1, !.calls = calls]
                /\ UNCHANGED inv
    /\ UNCHANGED <<mbrs, mrrs, rts, snaps, contents>>

\* the CSI driver binds a Snapshot to a content it creates
DriverBinds ==
    \E vs \in snaps :
        /\ vs.boundContentIsNil
        /\ snaps' = (snaps \ {vs}) \cup {Snapshot(vs.namespace, vs.name, "snapcontent-" \o vs.name)}
        /\ contents' = contents \cup {PendingContent("snapcontent-" \o vs.name, vs)}
        /\ UNCHANGED <<mbrs, mrrs, rts, inv, run>>

\* the CSI driver records the snapshot handle of a content
DriverSetsHandle ==
    \E c \in contents :
        /\ c.status.isNil \/ c.status.handleIsNil
        /\ contents' = (contents \ {c}) \cup
                          {[c EXCEPT !.status = [isNil |-> FALSE, handleIsNil |-> FALSE,
                                                 snapshotHandle |-> "handle-1"]]}
        /\ UNCHANGED <<mbrs, mrrs, rts, snaps, inv, run>>

InitWaits ==
    /\ mbrs = {LiveMBR("", "mssql-pvc")}
    /\ mrrs = {} /\ rts = {} /\ contents = {}
    /\ snaps = {Snapshot("ns1", "snap-a", "")}
    /\ inv = NoInvocation
    /\ run = NotRunning

NextWaits ==
    \/ PropagateStart
    \/ PropagatePoll
    \/ MoverAdvances
    \/ StageRequest
    \/ RestorePoll
    \/ MoverCreatesTarget
    \/ MoverSyncs
    \/ ReconcileStart
    \/ ReconcilePoll
    \/ DriverBinds
    \/ DriverSetsHandle

\* a wait that has started goes on polling: the goroutine runs and its timer fires.
\* Nothing is assumed of the mover or of the driver
SpecWaits ==
    /\ InitWaits /\ [][NextWaits]_vars
    /\ WF_vars(PropagatePoll) /\ WF_vars(RestorePoll) /\ WF_vars(ReconcilePoll)

(***************************************************************************)
(* The Snapshot rewrite run by the restore at any moment, also while a     *)
(* Restore Orchestrator invocation waits for the mover                     *)
(***************************************************************************)
\* the Snapshot and the content the sync of a target produced
SyncedSnapshot(rd) == Snapshot(rd.namespace, rd.latestImage, "content-of-" \o rd.latestImage)

SyncedContent(rd) ==
    [Content("content-of-" \o rd.latestImage, "Delete", "handle-of-" \o rd.latestImage)
        EXCEPT !.refNamespace = rd.namespace, !.refName = rd.latestImage]

\* the claim whose request the rewrite that reads the DataMoverRestore looks up
SnapshotDMRClaim == "mssql-pvc"

ConcurrentRequest ==
    /\ run.pc = "idle"
    /\ \E p \in {SnapshotDMRClaim}, variant \in {"annotations", "vsr"} :
          RestoreStartOn(variant, ArchivedMBR(p))
    /\ UNCHANGED <<mbrs, rts, snaps, contents>>

\* the mover completes the restore of a request whose target has synced: the Snapshot
\* and the content of the sync are in the store and the request's status names the handle
MoverPublishes ==
    \E m \in mrrs :
        /\ m.snapshotHandle = ""
        /\ TargetCompleted(rts, m)
        /\ LET rd == Obj(rts, m.protectedNamespace, m.name \o "-rep-dest")
           IN  /\ snaps' = snaps \cup {SyncedSnapshot(rd)}
               /\ contents' = contents \cup {SyncedContent(rd)}
               /\ mrrs' = (mrrs \ {m}) \cup
                             {[m EXCEPT !.snapshotHandle = SyncedContent(rd).status.snapshotHandle]}
        /\ UNCHANGED <<mbrs, rts, inv, run>>

ConcurrentSnapshotVSR ==
    \E p \in {SnapshotDMRClaim} : SnapshotRestoreVSROn(ArchivedSnapshot(p), "r1", "nil")

ConcurrentSnapshotDMR ==
    \E p \in {SnapshotDMRClaim} : SnapshotRestoreDMROn(ArchivedSnapshot(p), "r1")

ConcurrentClaim ==
    \E p \in {SnapshotDMRClaim} : PVCRestoreOn(ArchivedClaim(p), <<>>)

NextConcurrent ==
    \/ ConcurrentRequest
    \/ RestorePoll
    \/ MoverCreatesTarget
    \/ MoverSyncs
    \/ MoverPublishes
    \/ ConcurrentSnapshotVSR
    \/ ConcurrentSnapshotDMR
    \/ ConcurrentClaim

SpecConcurrent == InitStages /\ [][NextConcurrent]_vars

(***************************************************************************)
(* A restore with a namespace mapping: the items come from the archive in  *)
(* the namespace they were backed up in                                    *)
(***************************************************************************)
SourceNamespaces == {"ns0", "ns1"}

MappedRequest ==
    /\ run.pc = "idle"
    /\ \E p \in ClaimNames, ns \in SourceNamespaces :
          RestoreStartOn("annotations", [ArchivedMBR(p) EXCEPT !.namespace = ns])
    /\ UNCHANGED <<mbrs, rts, snaps, contents>>

MappedClaim ==
    /\ run.pc = "idle"
    /\ \E p \in ClaimNames, ns \in SourceNamespaces, mapping \in NamespaceMappings :
          PVCRestoreOn([ArchivedClaim(p) EXCEPT !.namespace = ns], mapping)

NextMapping ==
    \/ MappedRequest
    \/ RestorePoll
    \/ MoverCreatesTarget
    \/ MoverSyncs
    \/ MappedClaim

SpecMapping == InitStages /\ [][NextMapping]_vars

(***************************************************************************)
(* The mover mode switch and the restore of a SnapshotContent:             *)
(* VolumeSnapshotContentRestoreItemAction.  The process of the plugin is   *)
(* in `run`: the environment variable, and the switch read from it at the  *)
(* start of the process                                                    *)
(***************************************************************************)
CSIDeleteSnapshotSecretName == "velero.io/csi-deletesnapshotsecret-name"
CSIDeleteSnapshotSecretNamespace == "velero.io/csi-deletesnapshotsecret-namespace"

\* strconv.ParseBool, its error dropped: anything it does not accept reads as false
ParseBool(str) == str \in {"1", "t", "T", "TRUE", "true", "True"}

\* the values of VOLUME_SNAPSHOT_MOVER: unset, accepted and not accepted spellings
EnvValues == {"", "true", "1", "false", "yes"}

\* A plausible slip: the switch is read from the environment at every call
DataMoverCaseFromEnv(process) == ParseBool(process.env)

\* DataMoverCase: the getter of the package variable
DataMoverCase(process) == process.dataMoverCase

ContentRestoreItems ==
    { [kind |-> "vsc", name |-> "sc-a", namespace |-> "", refName |-> "snap-a",
       refNamespace |-> "ns1", annotations |-> a]
        : a \in { NilMap,
                  MakeMap([k \in {CSIDeleteSnapshotSecretName, CSIDeleteSnapshotSecretNamespace}
                             |-> IF k = CSIDeleteSnapshotSecretName THEN "s1" ELSE "ns1"]),
                  MakeMap([k \in {PrefixedSnapshotterSecretNameKey,
                                  PrefixedSnapshotterSecretNamespaceKey}
                             |-> IF k = PrefixedSnapshotterSecretNameKey THEN "s1" ELSE "ns1"]) } }

\* Restore.Spec.RestorePVs: unset, true or false
RestorePVsValues == {"nil", "true", "false"}

\* Execute of the snapshot-content restore action
ContentRestoreExecute(item, restorePVs, process) ==
    IF DataMoverCase(process)
    THEN [res |-> "nil", skipRestore |-> TRUE, updatedItem |-> NoItem, additional |-> <<>>]
    ELSE IF restorePVs = "false"
    THEN [res |-> "nil", skipRestore |-> TRUE, updatedItem |-> NoItem, additional |-> <<>>]
    ELSE [res |-> "nil", skipRestore |-> FALSE, updatedItem |-> item,
          additional |->
              IF IsVolumeSnapshotContentHasDeleteSecret(item)
              THEN <<[group |-> "", resource |-> "secrets",
                      name |-> MapGet(item.annotations, CSIDeleteSnapshotSecretName),
                      namespace |-> MapGet(item.annotations, CSIDeleteSnapshotSecretNamespace)]>>
              ELSE <<>>]

\* the container starts: the package variable is initialised from the environment
ProcessStart ==
    /\ run.pc = "unstarted"
    /\ run' = [pc |-> "serving", env |-> run.env, dataMoverCase |-> ParseBool(run.env)]
    /\ UNCHANGED <<mbrs, mrrs, rts, snaps, contents, inv>>

\* the environment variable is given another value while the process runs
EnvChanges ==
    /\ run.pc = "serving"
    /\ \E e \in EnvValues \ {run.env} : run' = [run EXCEPT !.env = e]
    /\ UNCHANGED <<mbrs, mrrs, rts, snaps, contents, inv>>

DoContentRestore ==
    /\ run.pc = "serving"
    /\ \E item \in ContentRestoreItems, restorePVs \in RestorePVsValues :
          LET r == ContentRestoreExecute(item, restorePVs, run)
          IN  inv' = [op |-> "content-restore", item |-> item,
                      arg |-> [restorePVs |-> restorePVs, env |-> run.env],
                      pre |-> contents, calls |-> <<>>, res |-> r.res,
                      out |-> [skipRestore |-> r.skipRestore, updatedItem |-> r.updatedItem],
                      additional |-> r.additional]
    /\ UNCHANGED <<mbrs, mrrs, rts, snaps, contents, run>>

InitSwitch ==
    /\ mbrs = {} /\ mrrs = {} /\ rts = {} /\ snaps = {} /\ contents = {}
    /\ inv = NoInvocation
    /\ \E e \in EnvValues : run = [pc |-> "unstarted", env |-> e]

NextSwitch == ProcessStart \/ EnvChanges \/ DoContentRestore

SpecSwitch == InitSwitch /\ [][NextSwitch]_vars

(***************************************************************************)
(* Claims about the Backup Orchestrator                                    *)
(***************************************************************************)
RequestsFor(store, c) == { m \in store : m.content = c }

\* C1: after any sequence of Backup Orchestrator invocations, at most one
\* MoverBackupRequest referencing a given SnapshotContent exists in the store.
C1_AtMostOneRequestPerContent ==
    \A c \in ContentNames : Cardinality(RequestsFor(mbrs, c)) <= 1

\* a repeated invocation for a content whose request an earlier invocation created:
\* its create call is refused and the one request remains
C1_Witness ==
    /\ inv.op = "backup"
    /\ Len(inv.calls) = 2
    /\ inv.calls[2].verb = "create" /\ inv.calls[2].res = "AlreadyExists"
    /\ Found(mbrs, inv.calls[2].namespace, inv.calls[2].name)
    /\ Obj(mbrs, inv.calls[2].namespace, inv.calls[2].name).content = inv.item.name
    /\ Cardinality(RequestsFor(mbrs, inv.item.name)) = 1

\* C7: invoking the Backup Orchestrator for a SnapshotContent for which no
\* MoverBackupRequest exists returns success, creates exactly one request with the
\* deterministic name and the backup's namespace as protected namespace, and returns
\* one additional item for it, plus a secret item iff both delete-secret annotations
\* are present.
C7_FreshBackupCreatesOneRequest ==
    (inv.op = "backup" /\ RequestsFor(inv.pre, inv.item.name) = {})
        => /\ inv.res = "nil"
           /\ \E m \in mbrs :
                /\ mbrs = inv.pre \cup {m} /\ m \notin inv.pre
                /\ m.content = inv.item.name
                /\ m.name = "vsb-" \o inv.item.refName
                /\ m.protectedNamespace = inv.arg.namespace
                /\ Len(inv.additional) =
                     (IF IsVolumeSnapshotContentHasDeleteSecret(inv.item) THEN 2 ELSE 1)
                /\ inv.additional[Len(inv.additional)].name = m.name
                /\ \A i \in 1..(Len(inv.additional) - 1) : inv.additional[i].resource = "secrets"

(***************************************************************************)
(* Claims about the Deletion Guard                                         *)
(***************************************************************************)
CallsWith(verb) == { i \in 1..Len(inv.calls) : inv.calls[i].verb = verb }

\* the item carries the backup-name label with the sanitized name of the backup
CarriesBackupLabel(item, backupName) ==
    /\ MapHas(item.labels, BackupNameLabel)
    /\ item.labels.kv[BackupNameLabel] = GetValidName(backupName)

\* C2: the Deletion Guard never issues a patch or a delete for a SnapshotContent whose
\* backup-name label is absent or differs from the sanitized name of the backup being
\* deleted, an empty or blank backup name included; it returns success with the store
\* unchanged.
C2_NeverTouchesForeignContent ==
    (inv.op = "delete" /\ ~CarriesBackupLabel(inv.item, inv.arg.name))
        => /\ inv.calls = <<>>
           /\ inv.res = "nil"
           /\ contents = inv.pre

\* a content present in the store without the label, met with an empty backup name
C2_Witness ==
    /\ inv.op = "delete"
    /\ ~MapHas(inv.item.labels, BackupNameLabel)
    /\ Len(TrimSpace(inv.arg.name)) = 0
    /\ Found(inv.pre, "", inv.item.name)
    /\ Found(contents, "", inv.item.name)
    /\ inv.res = "nil"

\* C3: a delete call is issued only after a patch call of the same invocation, for the
\* same content, has returned successfully.
C3_DeleteOnlyAfterSuccessfulPatch ==
    inv.op = "delete"
        => \A j \in CallsWith("delete") :
              \E i \in CallsWith("patch") :
                  /\ i < j
                  /\ inv.calls[i].res = "nil"
                  /\ inv.calls[i].name = inv.calls[j].name

\* a labeled content is patched to Delete and then deleted
C3_Witness ==
    /\ inv.op = "delete"
    /\ Len(inv.calls) = 2
    /\ inv.calls[1].verb = "patch" /\ inv.calls[1].res = "nil"
    /\ inv.calls[2].verb = "delete" /\ inv.calls[2].res = "nil"
    /\ Found(inv.pre, "", inv.item.name)
    /\ ~Found(contents, "", inv.item.name)

\* C4: when the patch call fails with not-found the invocation issues no delete call
\* and returns success, whether or not the item carries a status or snapshot handle.
C4_PatchNotFoundIsSuccess ==
    (/\ inv.op = "delete"
     /\ \E i \in CallsWith("patch") : inv.calls[i].res = "NotFound")
        => /\ CallsWith("delete") = {}
           /\ inv.res = "nil"

(***************************************************************************)
(* Claims about the Claim rewrite                                          *)
(***************************************************************************)
\* the MoverRestoreRequest the invocation read
ReadMRR == Obj(mrrs, inv.calls[1].namespace, inv.calls[1].name)

MaxKi(a, b) == IF a >= b THEN a ELSE b

\* C5: for every storage request X of the claim (an absent one included) and every
\* recorded source size Y, the returned claim requests exactly max(X, Y).
C5_RequestIsMax ==
    (inv.op = "pvc" /\ inv.res = "nil")
        => LET y == ParseQuantity(ReadMRR.size).ki
           IN  /\ inv.out.storage.ok
               /\ inv.out.storage.ki =
                     (IF inv.item.storage.ok THEN MaxKi(inv.item.storage.ki, y) ELSE y)

\* a request of 5Gi raised to the recorded 8Gi
C5_Witness ==
    /\ inv.op = "pvc" /\ inv.res = "nil"
    /\ inv.item.storage = ParseQuantity("5Gi")
    /\ ReadMRR.size = "8Gi"
    /\ inv.out.storage.ki = 8 * 1048576

\* a request of 10Gi kept over the recorded 8Gi
C5_WitnessKept ==
    /\ inv.op = "pvc" /\ inv.res = "nil"
    /\ inv.item.storage = ParseQuantity("10Gi")
    /\ ReadMRR.size = "8192Mi"
    /\ inv.out.storage.ki = 10 * 1048576

\* the ReplicationTarget of a MoverRestoreRequest: <request name>-rep-dest in its
\* protected namespace
TargetOf(mrr) == Obj(rts, mrr.protectedNamespace, mrr.name \o "-rep-dest")

\* C6: the claim returned by a successful Claim rewrite has none of the four
\* provisioner-internal annotations, keeps every other input annotation with its value,
\* and has its data source set to the Snapshot named by the latestImage of the
\* ReplicationTarget of its MoverRestoreRequest.
C6_RewrittenClaim ==
    (inv.op = "pvc" /\ inv.res = "nil")
        => /\ DOMAIN inv.out.annotations.kv \cap ProvisionerAnnotations = {}
           /\ \A k \in DOMAIN inv.item.annotations.kv \ ProvisionerAnnotations :
                 /\ k \in DOMAIN inv.out.annotations.kv
                 /\ inv.out.annotations.kv[k] = inv.item.annotations.kv[k]
           /\ inv.out.dataSource.kind = "VolumeSnapshot"
           /\ Found(rts, ReadMRR.protectedNamespace, ReadMRR.name \o "-rep-dest")
                 => inv.out.dataSource.name = TargetOf(ReadMRR).latestImage

C9_RequestsHaveRepository ==
    \A m \in mrrs : m.resticRepository # ""

(***************************************************************************)
(* Claims about the Snapshot rewrite                                       *)
(***************************************************************************)
\* the contents the Snapshot rewrite created: they carry the restore-name label
CreatedByRewrite == { c \in contents : c.restoreName # "" }

\* C10: every SnapshotContent created by the Snapshot rewrite has deletion policy
\* Retain, also for a Snapshot whose deletion-policy annotation says Delete.
C10_CreatedContentIsRetain ==
    \A c \in CreatedByRewrite : c.deletionPolicy = "Retain"

\* C11: whenever the Snapshot rewrite creates a SnapshotContent, the content's
\* back-reference is the (namespace, name) of the Snapshot being restored, and the
\* Snapshot item returned sources from that content's name.
C11_BindingIsBidirectional ==
    (inv.op = "snapshot" /\ contents # inv.pre)
        => \A c \in contents \ inv.pre :
              /\ c.refNamespace = inv.item.namespace
              /\ c.refName = inv.item.name
              /\ inv.out # NoItem
              /\ ~inv.out.contentNameIsNil
              /\ inv.out.contentName = c.name

\* the content's source is the snapshot handle alone
StaticSource(c) == ~c.snapshotHandleIsNil /\ c.volumeHandleIsNil

\* C12: a SnapshotContent created by the Snapshot rewrite has a static source and no
\* dynamic source at creation, and no action gives that object a dynamic source
\* afterwards.
C12_StaticSourceStays ==
    [][\A d \in contents' :
          (\/ \E c \in CreatedByRewrite : c.name = d.name
           \/ inv'.op = "snapshot" /\ ~Found(contents, "", d.name))
              => StaticSource(d)]_vars

\* a content the rewrite created, patched to Delete by the Deletion Guard and, its
\* delete call having failed, still in the store with its static source
C12_Witness ==
    /\ inv.op = "delete" /\ inv.res = "error"
    /\ Len(inv.calls) = 2 /\ inv.calls[1].res = "nil"
    /\ \E c \in CreatedByRewrite :
          /\ c.name = inv.item.name
          /\ c.deletionPolicy = "Delete"
          /\ Obj(inv.pre, "", c.name).deletionPolicy = "Retain"
          /\ StaticSource(c)

(***************************************************************************)
(* Claims about the waits of the Restore Orchestrator                      *)
(***************************************************************************)
\* C13: the Restore Orchestrator (the waiting DataMoverRestore action) returns success
\* only if a sync round of the ReplicationTarget completed after this invocation
\* created the MoverRestoreRequest; a target that carries a lastSyncTime from an earlier
\* sync is never accepted as completion.
C13_SuccessOnlyAfterFreshSync ==
    (inv.op = "restore" /\ inv.arg.variant = "annotations" /\ inv.res = "nil")
        => inv.arg.synced

\* C19: after a Restore Orchestrator invocation has failed with a timeout, a later
\* invocation for the same restored MoverBackupRequest item, made once the mover has
\* completed its sync, returns success.
C19_RetryAfterTimeoutSucceeds ==
    (/\ inv.op = "restore" /\ inv.arg.variant \in {"annotations", "vsr"}
     /\ inv.arg.retried /\ inv.arg.ready)
        => inv.res = "nil"

(***************************************************************************)
(* Claims about the Mover-Status Propagator                                *)
(***************************************************************************)
\* the phases the invocation observed on the live object, one per round
Observed == inv.arg.observed

\* C14: the Mover-Status Propagator returns an item only if it observed the live
\* MoverBackupRequest in phase Completed; for every other phase (empty, New,
\* InProgress, Failed) persisting until the timeout it returns an error and no item.
C14_ItemOnlyWhenCompleted ==
    inv.op = "propagate"
        => /\ inv.out # NoItem
                => /\ inv.res = "nil"
                   /\ Len(Observed) > 0
                   /\ Observed[Len(Observed)] = DatamoverBackupPhaseCompleted
           /\ (\A i \in 1..Len(Observed) : Observed[i] # DatamoverBackupPhaseCompleted)
                => /\ inv.res \in {"error", "timeout"}
                   /\ inv.out = NoItem
                   /\ Len(Observed) = PollRounds => inv.res = "timeout"

\* the request stayed Failed through every round of the wait, which timed out
C14_Witness ==
    /\ inv.op = "propagate"
    /\ Len(Observed) = PollRounds
    /\ \A i \in 1..PollRounds : Observed[i] = "Failed"
    /\ inv.res = "timeout" /\ inv.out = NoItem

\* the completion data of a MoverRestoreRequest
CompletionData(req) == <<req.resticRepository, req.pvcName, req.size>>

\* C15: for every completed MoverBackupRequest with status (R, N, S), the item the
\* propagator emits carries R, N, S as annotations, and the MoverRestoreRequest the
\* Restore Orchestrator builds from that item, its status stripped by the archive,
\* carries exactly R, N and S.
C15_CompletionDataRoundTrip ==
    /\ (inv.op = "propagate" /\ inv.res = "nil")
          => LET live == Obj(mbrs, inv.item.namespace, inv.item.name).status
             IN  \A k \in DOMAIN StatusAnnotations(live) :
                    MapGet(inv.out.annotations, k) = StatusAnnotations(live)[k]
    /\ (inv.op = "restore" /\ inv.calls[1].res = "nil")
          => LET live == Obj(mbrs, inv.item.namespace, inv.item.name).status
                 req  == Obj(mrrs, inv.calls[1].namespace, inv.calls[1].name)
             IN  CompletionData(req) = <<live.resticRepository, live.pvcName, live.pvcSize>>

(***************************************************************************)
(* Claims about idempotent creation                                        *)
(***************************************************************************)
\* the request an earlier Backup Orchestrator invocation created for the item
CreatedEarlier(store, snapCont) ==
    \E m \in store :
        /\ m.name = "vsb-" \o snapCont.refName
        /\ m.namespace = snapCont.refNamespace
        /\ m.content = snapCont.name

\* C16: a second Backup Orchestrator invocation for the same SnapshotContent, run after
\* an earlier invocation created the MoverBackupRequest, finds that request through the
\* existence check, issues no create call, and returns success with the same additional
\* items as the first invocation.
C16_SecondBackupReusesRequest ==
    (inv.op = "backup" /\ CreatedEarlier(inv.pre, inv.item))
        => /\ inv.res = "nil"
           /\ CallsWith("create") = {}
           /\ mbrs = inv.pre
           /\ inv.additional =
                 SecretItems(inv.item)
                   \o <<[group |-> "datamover.oadp.openshift.io",
                         resource |-> "volumesnapshotbackup",
                         name |-> "vsb-" \o inv.item.refName,
                         namespace |-> inv.item.refNamespace]>>

\* C18: every create call issued by an orchestrator action is preceded, in the same
\* invocation, by a lookup that found the object to be created absent.
C18_CreateOnlyAfterLookup ==
    \A j \in CallsWith("create") :
        \E i \in CallsWith("get") :
            /\ i < j
            /\ inv.calls[i].kind = inv.calls[j].kind
            /\ inv.calls[i].namespace = inv.calls[j].namespace
            /\ inv.calls[i].name = inv.calls[j].name
            /\ inv.calls[i].res = "NotFound"

\* C20: when the Claim rewrite is invoked while the MoverRestoreRequest of the claim or
\* the ReplicationTarget of that request is absent, the invocation returns an error at
\* once and returns no updated item.
C20_MissingDependencyIsError ==
    (/\ inv.op = "pvc"
     /\ \/ inv.calls[1].res # "nil"
        \/ ~Found(rts, ReadMRR.protectedNamespace, ReadMRR.name \o "-rep-dest"))
        => /\ inv.res = "error"
           /\ inv.out = NoItem

\* both invocations have returned, each after an existence check that met no error
BothReturnedAfterCheck ==
    /\ run.pc = "parallel"
    /\ \A i \in Invocations :
          /\ run.proc[i].pc = "done"
          /\ run.proc[i].calls[1].res = "nil"

\* C17: for two Backup Orchestrator invocations running concurrently on the same
\* SnapshotContent, in every interleaving of their existence-check and create steps
\* exactly one MoverBackupRequest results in the store and neither invocation returns an
\* error.
C17_ParallelBackupsBothSucceed ==
    BothReturnedAfterCheck
        => /\ Cardinality(RequestsFor(mbrs, run.proc[1].item.name)) = 1
           /\ \A i \in Invocations : run.proc[i].res = "nil"

C23_TargetNamedAfterRequest ==
    (inv.op = "pvc" /\ Len(inv.calls) >= 2)
        => /\ inv.calls[2].kind = "rt"
           /\ inv.calls[2].name = ReadMRR.name \o "-rep-dest"
           /\ inv.calls[2].namespace = ReadMRR.protectedNamespace

\* C24: a poll round in which the awaited MoverBackupRequest does not exist yet does
\* not end the wait; the wait goes on to the next round and ends early only on an
\* error other than not-found.
C24_NotFoundKeepsWaiting ==
    (/\ inv.op = "propagate"
     /\ \E i \in 1..Len(inv.calls) : inv.calls[i].res = "NotFound")
        => /\ inv.res # "error"
           /\ Len(inv.calls) = PollRounds \/ inv.res = "nil"

\* C26: every successful Backup Orchestrator invocation returns, as an additional
\* item, a resource identifier that the Mover-Status Propagator's resource selector
\* applies to and that names the MoverBackupRequest of this content.
C26_RequestGoesToPropagator ==
    (inv.op = "backup" /\ inv.res = "nil")
        => \E i \in 1..Len(inv.additional) :
              /\ AppliesTo(DataMoverBackupIncludedResources, inv.additional[i])
              /\ \E m \in RequestsFor(mbrs, inv.item.name) :
                    /\ m.name = inv.additional[i].name
                    /\ m.namespace = inv.additional[i].namespace

\* C30: a successful Restore Orchestrator invocation returns an output with no updated
\* item and no additional items, and issues no call on a MoverBackupRequest.
C30_RestoreReturnsEmptyOutput ==
    (inv.op = "restore" /\ inv.res = "nil")
        => /\ inv.out = NoItem
           /\ inv.additional = <<>>
           /\ \A i \in 1..Len(inv.calls) : inv.calls[i].kind # "mbr"

\* the wait of the annotations variant ended with the sync of this request completed
C30_Witness ==
    /\ inv.op = "restore" /\ inv.res = "nil"
    /\ inv.arg.variant = "annotations" /\ inv.arg.synced
    /\ inv.calls[1].verb = "create" /\ inv.calls[1].res = "nil"
    /\ inv.out = NoItem

\* C27: an API error other than not-found returned by a lookup or client call inside
\* an action is returned by that action as an error; it is not converted into a
\* normal outcome such as "object absent".
C27_ApiErrorsAreReturned ==
    (\E i \in 1..Len(inv.calls) : inv.calls[i].res = "Error")
        => inv.res = "error"

\* C29: when a Snapshot with the restored item's namespace and name already exists
\* live, the Snapshot rewrite (having found its MoverRestoreRequest) creates no
\* SnapshotContent and returns the Snapshot item with its spec and annotations
\* unchanged.
C29_ExistingSnapshotIsLeftAlone ==
    (/\ inv.op = "snapshot" /\ inv.arg.variant = "vsr"
     /\ Len(inv.calls) >= 1 /\ inv.calls[1].res = "nil"
     /\ Found(snaps, inv.item.namespace, inv.item.name))
        => /\ CallsWith("create") = {}
           /\ contents = inv.pre
           /\ inv.res = "nil"
           /\ inv.out = inv.item

\* the requests the Restore Orchestrator created for claim p
RequestsOfClaim(p) == { m \in mrrs : m.pvcName = p }

\* the claim an item of a rewrite belongs to
ClaimOf(item) == IF item.kind = "pvc" THEN item.name ELSE item.pvcName

\* C22: for every restored claim P, the MoverRestoreRequest name the Snapshot rewrite
\* and the Claim rewrite look up is the name under which the Restore Orchestrator
\* created the request for P, so a request it created is always found by both.
C22_RewritesFindTheRequest ==
    (/\ inv.op \in {"pvc", "snapshot"}
     /\ RequestsOfClaim(ClaimOf(inv.item)) # {})
        => /\ Len(inv.calls) >= 1
           /\ inv.calls[1].kind = "mrr"
           /\ inv.calls[1].res = "nil"
           /\ Obj(mrrs, inv.calls[1].namespace, inv.calls[1].name)
                 \in RequestsOfClaim(ClaimOf(inv.item))

C25_EveryWaitReturns ==
    (run.pc # "idle") ~> (run.pc = "idle" /\ inv.res \in {"nil", "error", "timeout"})

\* the wait for the restore timed out on a mover that never created the target
C25_Witness ==
    /\ run.pc = "idle"
    /\ inv.op = "restore" /\ inv.res = "timeout"
    /\ Len(inv.calls) = PollRounds + 1
    /\ rts = {}

\* C31: the item a successful Backup Orchestrator invocation returns is the item it was
\* given, field for field
C31_BackupReturnsItemUnchanged ==
    (inv.op = "backup" /\ inv.res = "nil") => inv.out = inv.item

\* a backup that created the request and names the deletion secret returned its item
C31_Witness ==
    /\ inv.op = "backup" /\ inv.res = "nil"
    /\ \E i \in CallsWith("create") : inv.calls[i].res = "nil"
    /\ Len(inv.additional) = 2
    /\ inv.out = inv.item

\* the snapshot handles of the contents the mover's syncs produced
MoverHandles ==
    { c.status.snapshotHandle : c \in { x \in contents : x.restoreName = "" /\ ~x.status.isNil
                                                          /\ ~x.status.handleIsNil } }

\* C32: every content the Snapshot rewrite created carries a non-empty snapshot handle,
\* the handle of a content the mover produced, also when the rewrite ran while a
\* Restore Orchestrator invocation was still waiting
C32_ContentOnlyFromCompletedRestore ==
    \A c \in CreatedByRewrite :
        /\ ~c.snapshotHandleIsNil
        /\ c.snapshotHandle # ""
        /\ c.snapshotHandle \in MoverHandles

\* the contents the Snapshot rewrite created for the Snapshot of claim p
StaticContentsOf(p) == { c \in CreatedByRewrite : c.name = "vsr-vsc-" \o p }

\* C33: once the Snapshot rewrite and the Claim rewrite have both succeeded for a
\* claim, the claim's data source names a Snapshot of the claim's namespace, the one
\* bound to the content the Snapshot rewrite created, and that content carries the
\* handle the mover produced
C33_ClaimSourcesFromStaticSnapshot ==
    (inv.op = "pvc" /\ inv.res = "nil" /\ StaticContentsOf(inv.item.name) # {})
        => /\ inv.out.dataSource.kind = "VolumeSnapshot"
           /\ \E c \in StaticContentsOf(inv.item.name) :
                 /\ c.refNamespace = inv.out.namespace
                 /\ c.refName = inv.out.dataSource.name
                 /\ c.snapshotHandle \in MoverHandles

\* C34: whatever the namespace mapping of the restore, the Claim rewrite looks the
\* request up in the namespace the Restore Orchestrator created it in: the request of a
\* claim, created from the archive of the claim's namespace, is looked up there
C34_LookupWhereCreated ==
    (/\ inv.op = "pvc"
     /\ \E m \in RequestsOfClaim(inv.item.name) : m.namespace = inv.item.namespace)
        => /\ inv.calls[1].kind = "mrr"
           /\ inv.calls[1].namespace = inv.item.namespace
           /\ inv.calls[1].res = "nil"

\* the contents an earlier invocation of the Snapshot rewrite created for the Snapshot vs
CreatedEarlierFor(vs) ==
    { c \in inv.pre : /\ c.restoreName # ""
                      /\ c.refNamespace = vs.namespace /\ c.refName = vs.name
                      /\ c.name = "vsr-vsc-" \o vs.pvcName }

\* C35: the Snapshot rewrite invoked again for a Snapshot item whose content an earlier
\* invocation created, the Snapshot not yet live, returns success and leaves exactly
\* one such content in the store
C35_RetryOfRewriteSucceeds ==
    (/\ inv.op = "snapshot" /\ inv.arg.variant = "vsr"
     /\ ~inv.item.pvcNameIsNil
     /\ CreatedEarlierFor(inv.item) # {}
     /\ ~Found(snaps, inv.item.namespace, inv.item.name))
        => /\ inv.res = "nil"
           /\ Cardinality({ c \in contents : c.name = "vsr-vsc-" \o inv.item.pvcName }) = 1

\* the item carries, as annotations and as status, the completion data of the live request
AnnotatedFrom(item, live) ==
    /\ item # NoItem
    /\ item.status = live.status
    /\ MapGet(item.annotations, DatamoverResticRepository) = live.status.resticRepository
    /\ MapGet(item.annotations, DatamoverSourcePVCName) = live.status.pvcName
    /\ MapGet(item.annotations, DatamoverSourcePVCSize) = live.status.pvcSize

\* C36: a wait of the propagator during which the live MoverBackupRequest is Completed,
\* and stays so, leads to a successful return with the item annotated from that status
C36_CompletedLeadsToSuccess ==
    (/\ run.pc = "waiting"
     /\ Found(mbrs, run.item.namespace, run.item.name)
     /\ Obj(mbrs, run.item.namespace, run.item.name).status.phase = DatamoverBackupPhaseCompleted)
        ~> (/\ inv.op = "propagate" /\ inv.res = "nil"
            /\ AnnotatedFrom(inv.out, Obj(mbrs, inv.item.namespace, inv.item.name)))

\* the propagator returned the annotated item after a round in which the mover had not
\* completed yet
C36_Witness ==
    /\ inv.op = "propagate" /\ inv.res = "nil"
    /\ Len(inv.calls) >= 2
    /\ inv.out.status.phase = DatamoverBackupPhaseCompleted
    /\ MapGet(inv.out.annotations, DatamoverSourcePVCName) \in ClaimNames

\* C37: the Snapshot a successful Snapshot rewrite returns has exactly one source: the
\* name of the content and no claim when it created a content, the claim of the item
\* and no content when the guard found the Snapshot and nothing was created
C37_ExactlyOneSource ==
    (inv.op = "snapshot" /\ inv.arg.variant = "vsr" /\ inv.res = "nil")
        => /\ inv.out # NoItem
           /\ IF CallsWith("create") # {}
              THEN /\ inv.out.pvcNameIsNil
                   /\ ~inv.out.contentNameIsNil
                   /\ \E c \in contents \ inv.pre : inv.out.contentName = c.name
              ELSE /\ ~inv.out.pvcNameIsNil
                   /\ inv.out.pvcName = inv.item.pvcName
                   /\ inv.out.contentNameIsNil
                   /\ contents = inv.pre

\* a rewrite that created the content returned the Snapshot sourced from it alone
C37_Witness ==
    /\ inv.op = "snapshot" /\ inv.arg.variant = "vsr" /\ inv.res = "nil"
    /\ \E i \in CallsWith("create") : inv.calls[i].res = "nil"
    /\ ~inv.item.pvcNameIsNil
    /\ inv.out.pvcNameIsNil /\ inv.out.contentName = "vsr-vsc-" \o inv.item.pvcName

\* C38: for a Snapshot item sourced from a content, with no claim name, the Snapshot
\* rewrite returns an item or an error value; it never ends abnormally
C38_ContentSourcedSnapshotReturns ==
    (inv.op = "snapshot" /\ inv.arg.variant = "vsr" /\ inv.item.pvcNameIsNil)
        => inv.res \in {"nil", "error"}

\* C39: two Deletion Guard invocations run in parallel on one labeled content of the
\* store, with no API error but not-found: once both have returned, both returned
\* success and the content is not in the store
C39_ParallelDeletesBothSucceed ==
    (/\ run.pc = "deleting"
     /\ \A i \in Invocations : run.proc[i].pc = "done"
     /\ \A i \in Invocations : HasBackupLabel(run.proc[i].item, run.proc[i].backup)
     /\ \A i \in Invocations : Found(run.pre, "", run.proc[i].item.name))
        => /\ \A i \in Invocations : run.proc[i].res = "nil"
           /\ \A i \in Invocations : ~Found(contents, "", run.proc[i].item.name)

\* C40: with the mover mode switch on, the restore of a SnapshotContent yields
\* skip-restore with no updated item and no additional items, whatever the item and the
\* restore; and the switch, read when the process starts, keeps its value from then on
C40_SwitchOnSkipsContent ==
    /\ []((inv.op = "content-restore" /\ run.dataMoverCase)
            => /\ inv.res = "nil"
               /\ inv.out.skipRestore
               /\ inv.out.updatedItem = NoItem
               /\ inv.additional = <<>>)
    /\ [][run.pc = "serving" => run'.dataMoverCase = run.dataMoverCase]_vars

\* a content that names a deletion secret was skipped, the restore asking for volumes,
\* after the environment variable was changed to a value that reads as off
C40_Witness ==
    /\ inv.op = "content-restore" /\ run.dataMoverCase
    /\ inv.out.skipRestore
    /\ IsVolumeSnapshotContentHasDeleteSecret(inv.item)
    /\ inv.arg.restorePVs = "true"
    /\ ~ParseBool(inv.arg.env)

====
